---------------------------- MODULE Spec2Model ----------------------------
(***************************************************************************)
(* Appointment scheduling and calendar synchronisation of the CallPilot    *)
(* backend: the local store (patients, appointments), the external         *)
(* calendar (events with a summary and a free-text description) and the    *)
(* handlers that read and write them.                                      *)
(*                                                                         *)
(* Times are minutes after midnight of one day.  A description is a        *)
(* sequence of lines, a line the pair <<key, value>> that the text         *)
(* "key: value" holds; a summary is the sequence of its words.             *)
(***************************************************************************)
EXTENDS Integers, Sequences, FiniteSets, TLC

(***************************************************************************)
(* Bounds of the model.                                                    *)
(***************************************************************************)
MaxAppts == 1
MaxEvents == 2
MaxPatients == 2
MaxTicks == 2
MaxBookings == 2

(***************************************************************************)
(* Configuration (AppointmentConfig defaults).                             *)
(***************************************************************************)
duration_minutes == 30
buffer_minutes == 0
available_start_hour == 9
available_start_minute == 0
available_end_hour == 17
available_end_minute == 0
MinutesPerHour == 60

Doctors == {"doctor_001", "doctor_002"}
\* agent_schedule_appointment books for this doctor; the CalendarService
\* client works on the one calendar the token file gives access to.
SingleTenantDoctor == "doctor_001"
Phones == {"+15550001", "+15550002"}
PatientName == "Ann"
\* 09:00 has started when the handlers run (it is 09:05), 09:30 is a slot
\* still to come, 17:00 is the end of the working hours.
ReqTimes == {540, 570, 1020}
Requests == {"r1", "r2"}
RequestOrder(r) == IF r = "r1" THEN 1 ELSE 2
NoId == 0

AppointmentStatus == {"scheduled", "confirmed", "cancelled", "no_show", "completed"}
AppointmentType == {"checkup", "consultation", "follow_up", "urgent", "other"}

(***************************************************************************)
(* Text helpers.                                                           *)
(***************************************************************************)
\* str.lower() on the words and keys the handlers compare.
Lower(s) ==
    CASE s = "Appointment:" -> "appointment:"
      [] s = "CANCELLED:" -> "cancelled:"
      [] s = "NO SHOW:" -> "no show:"
      [] s = "Patient" -> "patient"
      [] s = "Phone" -> "phone"
      [] s = "Email" -> "email"
      [] s = "Type" -> "type"
      [] s = "Status" -> "status"
      [] s = "Reminder Sent" -> "reminder sent"
      [] s = "Notes" -> "notes"
      [] s = "True" -> "true"
      [] s = "TRUE" -> "true"
      [] OTHER -> s

\* key.lower().replace(" ", "_")
NormalizeKey(k) ==
    IF Lower(k) = "reminder sent" THEN "reminder_sent" ELSE Lower(k)

\* CalendarService._build_event_description
\* (no email, no notes, type checkup: the agent's booking).
build_event_description(name, phone, status, reminder_sent) ==
    << <<"Patient", name>>, <<"Phone", phone>>, <<"Email", "N/A">>,
       <<"Type", "checkup">>, <<"Status", status>>,
       <<"Reminder Sent", IF reminder_sent THEN "true" ELSE "false">>,
       <<"Notes", "None">> >>

\* CalendarService._parse_description: a description is its lines, a line
\* with ": " in it is <<key, value>>, any other line is <<text>> and is
\* skipped; the last line of a key wins.
RECURSIVE parse_description(_, _, _)
parse_description(description, key, default) ==
    IF description = <<>> THEN default
    ELSE LET n == Len(description)
             line == description[n]
         IN IF Len(line) = 2 /\ NormalizeKey(line[1]) = key THEN line[2]
            ELSE parse_description(SubSeq(description, 1, n - 1), key, default)

\* CalendarService._event_to_appointment: status, with the fallback.
decoded_status(description) ==
    LET s == parse_description(description, "status", "scheduled")
    IN IF s \in AppointmentStatus THEN s ELSE "scheduled"

\* CalendarService._event_to_appointment: reminder_sent.
decoded_reminder_sent(description) ==
    Lower(parse_description(description, "reminder_sent", "false")) = "true"

\* CalendarService._update_description_field: line.startswith(field + ":").
CalendarService_update_description_field(description, field, value) ==
    LET found == \E i \in 1..Len(description) : description[i][1] = field
        upd == [i \in 1..Len(description) |->
                   IF description[i][1] = field THEN <<field, value>>
                   ELSE description[i]]
    IN IF found THEN upd ELSE Append(upd, <<field, value>>)

\* update_description_field of the API module:
\* line.startswith(field_label + ": ").
update_description_field(description, field, value) ==
    LET found == \E i \in 1..Len(description) : description[i][1] = field
        upd == [i \in 1..Len(description) |->
                   IF description[i][1] = field THEN <<field, value>>
                   ELSE description[i]]
    IN IF found THEN upd ELSE Append(upd, <<field, value>>)

\* str.replace(key + ": " + old, key + ": " + new) on a description.
replace_in_description(description, key, old, new) ==
    [i \in 1..Len(description) |->
        IF description[i] = <<key, old>> THEN <<key, new>> ELSE description[i]]

\* str.replace("Appointment:", prefix) on a summary: every occurrence,
\* compared case-sensitively.
replace_prefix(summary, prefix) ==
    [i \in 1..Len(summary) |->
        IF summary[i] = "Appointment:" THEN prefix ELSE summary[i]]

\* build_no_show_summary of the API module.
build_no_show_summary(summary) ==
    IF summary = <<>> THEN <<"NO SHOW:", "Appointment">>
    ELSE IF Lower(summary[1]) = "no show:" THEN summary
    ELSE IF Lower(summary[1]) = "appointment:"
         THEN IF Len(summary) = 1 THEN <<"NO SHOW:", "Appointment">>
              ELSE <<"NO SHOW:">> \o Tail(summary)
    ELSE <<"NO SHOW:">> \o summary

(***************************************************************************)
(* Availability.                                                           *)
(***************************************************************************)
start_of_day == available_start_hour * MinutesPerHour + available_start_minute
end_of_day == available_end_hour * MinutesPerHour + available_end_minute

\* CalendarService._generate_time_slots: the while loop.
RECURSIVE generate_from(_, _, _, _)
generate_from(current, end_time, duration, buffer) ==
    IF current + duration <= end_time
    THEN <<[start |-> current, end |-> current + duration]>>
         \o generate_from(current + duration + buffer, end_time, duration, buffer)
    ELSE <<>>

generate_time_slots(duration) ==
    generate_from(start_of_day, end_of_day, duration, buffer_minutes)

\* _filter_available_slots with intervals taken as closed.
filter_available_slots_closed(slots, busy_periods) ==
    LET free(slot) == \A busy \in busy_periods :
                         (slot.end < busy.start \/ slot.start > busy.end)
    IN SelectSeq(slots, free)

\* CalendarService._filter_available_slots
filter_available_slots(slots, busy_periods) ==
    LET free(slot) == \A busy \in busy_periods :
                         (slot.end <= busy.start \/ slot.start >= busy.end)
    IN SelectSeq(slots, free)

\* CalendarService._filter_past_slots
filter_past_slots(slots, t) ==
    LET future(slot) == slot.start > t
    IN SelectSeq(slots, future)


(***************************************************************************)
(* State.                                                                  *)
(***************************************************************************)
VARIABLES
    now,            \* datetime.now(tz), minutes after midnight
    patients,       \* table patients: row i has id i
    appointments,   \* table appointments: row i has id i
    events,         \* the external calendars: event i has id i
    pending,        \* create_appointment calls between check and write
    last,           \* what the last handler step returned
    users,          \* table users: the OAuth columns of each doctor's row
    token_file,     \* google_config.token_file: <<>> or <<token_data>>
    user_sessions   \* table user_sessions

vars ==
    <<now, patients, appointments, events, pending, last, users, token_file,
      user_sessions>>

NoRequest == [op |-> "none", phone |-> "", time |-> 0]

\* The result of a handler: op, the doctor scope it ran in, the argument
\* it was given (argk says whether arg names a local row, a calendar event
\* or a requested time), success, the error it reports, and what happened
\* to the external write and to the local commit.  value is the payload
\* of the answer, for the handlers whose payload the model follows.
Result(op, scope, argk, arg, ok, code, ext, commit) ==
    [op |-> op, scope |-> scope, argk |-> argk, arg |-> arg,
     ok |-> ok, code |-> code, ext |-> ext, commit |-> commit,
     value |-> <<>>]

ResultWith(op, scope, argk, arg, ok, code, ext, commit, value) ==
    [Result(op, scope, argk, arg, ok, code, ext, commit) EXCEPT !.value = value]

ApptIds == 1..Len(appointments)
EventIds == 1..Len(events)
\* Ids a caller may send: the existing ones and one that names nothing.
RefKinds == {"appt", "event"}
RefIds == 1..(MaxAppts + 1)

\* events().get(calendarId, eventId): the event, when that calendar has it.
get_event(cal, id) ==
    id \in EventIds /\ events[id].cal = cal

\* What freebusy().query answers with: the busy list of the calendar, an
\* entry of errors for the calendar in place of the busy list, or an
\* exception (HttpError).
FreeBusyAnswers == {"busy", "errors", "raises"}

\* A calendar that leaves the events cancelled by the application out of
\* its busy list.
get_busy_periods_without_cancelled(cal, answer) ==
    IF answer = "busy"
    THEN {[start |-> events[i].start_time, end |-> events[i].end_time] :
             i \in {j \in EventIds :
                        /\ events[j].cal = cal
                        /\ decoded_status(events[j].description) # "cancelled"}}
    ELSE {}

\* GoogleCalendarClient.get_busy_periods on an answer that came back:
\* calendar_data.get("busy", []).
get_busy_periods(cal, answer) ==
    IF answer = "busy"
    THEN {[start |-> events[i].start_time, end |-> events[i].end_time] :
             i \in {j \in EventIds : events[j].cal = cal}}
    ELSE {}

\* CalendarService.check_availability for the day, default duration.
check_availability(cal, answer) ==
    filter_past_slots(
        filter_available_slots(generate_time_slots(duration_minutes),
                               get_busy_periods(cal, answer)),
        now)

\* A check that also counts the slots held by calls in flight.
is_slot_available_reserving(cal, t, answer) ==
    /\ LET slots == check_availability(cal, answer)
       IN \E i \in 1..Len(slots) : slots[i].start = t
    /\ \A r \in Requests : pending[r] = NoRequest \/ pending[r].time # t

\* CalendarService.is_slot_available
is_slot_available(cal, t, answer) ==
    LET slots == check_availability(cal, answer)
    IN \E i \in 1..Len(slots) : slots[i].start = t

\* db.query(Patient).filter(doctor_id, phone).first(): 0 when there is none.
patient_of(d, phone) ==
    LET found == {i \in 1..Len(patients) :
                     patients[i].doctor_id = d /\ patients[i].phone = phone}
    IN IF found = {} THEN NoId ELSE CHOOSE i \in found : \A j \in found : i <= j

\* db.query(Patient).filter(phone).first() of the agent endpoints.
patient_by_phone(phone) ==
    LET found == {i \in 1..Len(patients) : patients[i].phone = phone}
    IN IF found = {} THEN NoId ELSE CHOOSE i \in found : \A j \in found : i <= j

\* A lookup that forgets the doctor filter.
find_appointment_any_doctor(d, argk, arg) ==
    IF argk = "appt"
    THEN IF arg \in ApptIds THEN arg ELSE NoId
    ELSE LET found == {i \in ApptIds : appointments[i].calendar_event_id = arg}
         IN IF found = {} THEN NoId
            ELSE CHOOSE i \in found : \A j \in found : i <= j

\* find_appointment_by_id_or_calendar_id: by local id within the doctor's
\* rows, then by calendar_event_id within the doctor's rows.
find_appointment_by_id_or_calendar_id(d, argk, arg) ==
    IF argk = "appt"
    THEN IF arg \in ApptIds /\ appointments[arg].doctor_id = d
         THEN arg ELSE NoId
    ELSE LET found == {i \in ApptIds : appointments[i].doctor_id = d
                                        /\ appointments[i].calendar_event_id = arg}
         IN IF found = {} THEN NoId
            ELSE CHOOSE i \in found : \A j \in found : i <= j

(***************************************************************************)
(* OAuth credentials of the users table (src/auth/service.py).  The JSON   *)
(* text of google_oauth_token is the sequence holding its token data, the  *)
(* empty sequence when the column is NULL; a NULL refresh token is "" and  *)
(* a NULL expiry is NoExpiry.                                              *)
(***************************************************************************)
NoExpiry == 0
\* The time of day the handlers run at: 09:05.
ClockStart == 545
TokenLifetime == 60
AccessTokens == {"at1", "at2", "at3"}
ClientSecret == "client_secret_1"

\* The access token the provider answers a refresh or a code exchange with:
\* one that differs from the token it replaces.
issue_token(old) ==
    CASE old = "at1" -> "at2"
      [] old = "at2" -> "at3"
      [] OTHER -> "at1"

token_data(access_token, refresh_token, expiry) ==
    [access_token |-> access_token, refresh_token |-> refresh_token,
     expiry |-> expiry, client_secret |-> ClientSecret]

UserRow(access_token, refresh_token, expiry) ==
    [google_oauth_token |-> <<token_data(access_token, refresh_token, expiry)>>,
     google_refresh_token |-> refresh_token,
     google_token_expiry |-> expiry]

DisconnectedUser ==
    [google_oauth_token |-> <<>>, google_refresh_token |-> "",
     google_token_expiry |-> NoExpiry]

\* user.google_token_expiry and datetime.utcnow() >= user.google_token_expiry
token_expired(u) ==
    /\ users[u].google_token_expiry # NoExpiry
    /\ now >= users[u].google_token_expiry

stored_access_token(u) ==
    IF users[u].google_oauth_token = <<>> THEN ""
    ELSE users[u].google_oauth_token[1].access_token

\* refresh_user_oauth_token, the row it commits: a new access token and
\* expiry, the refresh token of the column carried over.
refreshed_user(u) ==
    [users[u] EXCEPT
        !.google_oauth_token =
            <<token_data(issue_token(stored_access_token(u)),
                         users[u].google_refresh_token,
                         now + TokenLifetime)>>,
        !.google_token_expiry = now + TokenLifetime]

\* refresh_user_oauth_token: True when there is a refresh token and the
\* provider call and the commit (refresh_ok) go through.
refresh_user_oauth_token(u, refresh_ok) ==
    users[u].google_refresh_token # "" /\ refresh_ok

\* Whether get_user_oauth_token goes to refresh_user_oauth_token.
refresh_attempted(u) ==
    users[u].google_oauth_token # <<>> /\ token_expired(u)

\* The users table after get_user_oauth_token(u).
users_after_get_token(u, refresh_ok) ==
    IF refresh_attempted(u) /\ refresh_user_oauth_token(u, refresh_ok)
    THEN [users EXCEPT ![u] = refreshed_user(u)]
    ELSE users

\* A lookup that hands out whatever is stored.
get_user_oauth_token_unchecked(u, refresh_ok) ==
    users[u].google_oauth_token

\* get_user_oauth_token: the token data it returns, <<>> for None.
get_user_oauth_token(u, refresh_ok) ==
    IF users[u].google_oauth_token = <<>> THEN <<>>
    ELSE IF token_expired(u)
    THEN IF refresh_user_oauth_token(u, refresh_ok)
         THEN refreshed_user(u).google_oauth_token
         ELSE <<>>
    ELSE users[u].google_oauth_token

\* Descriptions an event can hold when a handler reads it: the one the
\* encoder wrote, and two that an edit in the calendar UI leaves behind
\* (the flag typed as "True", the flag's line removed).
WrittenDescription ==
    build_event_description(PatientName, "+15550001", "scheduled", FALSE)

SeedDescriptions ==
    { WrittenDescription,
      [WrittenDescription EXCEPT ![6] = <<"Reminder Sent", "True">>],
      SubSeq(WrittenDescription, 1, 5) \o SubSeq(WrittenDescription, 7, 7) }

SeedEvent(d, description) ==
    [cal |-> d, summary |-> <<"Appointment:", PatientName>>,
     description |-> description,
     start_time |-> 540, end_time |-> 540 + duration_minutes]

SeedAppointment(d) ==
    [doctor_id |-> d, patient_id |-> 1, calendar_event_id |-> 1,
     time |-> 540, status |-> "scheduled", reminder_sent |-> FALSE]

\* The stores as a deployment holds them: empty, or with one appointment
\* row linked to its calendar event (the sample_appointment fixture).
Init ==
    /\ now = ClockStart
    /\ pending = [r \in Requests |-> NoRequest]
    /\ last = Result("init", "", "none", NoId, TRUE, "ok", "none", "none")
    /\ token_file = <<>>
    /\ user_sessions = <<>>
    /\ users = [u \in Doctors |->
                   IF u = SingleTenantDoctor
                   THEN UserRow("at1", "rt1", now - 5)
                   ELSE UserRow("at1", "rt2", now + TokenLifetime)]
    /\ \/ /\ patients = <<>>
          /\ appointments = <<>>
          /\ events = <<>>
       \/ \E d \in Doctors, description \in SeedDescriptions :
             /\ d = SingleTenantDoctor \/ description = WrittenDescription
             /\ patients = <<[doctor_id |-> d, phone |-> "+15550001"]>>
             /\ appointments = <<SeedAppointment(d)>>
             /\ events = <<SeedEvent(d, description)>>

(***************************************************************************)
(* Handlers of the proxy service (src/calendar/service.py).                *)
(***************************************************************************)
\* call_calendar_mcp's answer is {"success", "operation", "data"}: read
\* with .get("event_id") it gives None.
mcp_event_id(operation) == NoId

\* call_calendar_mcp raises CalendarServiceError when the lookup returns
\* nothing or token data without an access token.
has_access_token(oauth_token) ==
    oauth_token # <<>> /\ oauth_token[1].access_token # ""

\* find-or-create of the patient: the table once the new row is flushed
\* and committed.
patients_with(d, phone) ==
    IF patient_of(d, phone) # NoId THEN patients
    ELSE Append(patients, [doctor_id |-> d, phone |-> phone])

\* One call of book_appointment that no other request runs into.  The
\* token lookup of call_calendar_mcp refreshes an expired token and commits
\* the session, the flushed patient row with it.
book_appointment(d, phone, t, db_ok, refresh_ok, commit_ok) ==
    /\ Len(appointments) < MaxAppts
    /\ patient_of(d, phone) # NoId \/ Len(patients) < MaxPatients
    /\ UNCHANGED <<now, events, pending>>
    /\ LET pid == IF patient_of(d, phone) # NoId THEN patient_of(d, phone)
                  ELSE Len(patients) + 1
           row == [doctor_id |-> d, patient_id |-> pid,
                   calendar_event_id |-> mcp_event_id("create_event"),
                   time |-> t, status |-> "scheduled", reminder_sent |-> FALSE]
           oauth_token == get_user_oauth_token(d, refresh_ok)
           committed_by_refresh == users_after_get_token(d, refresh_ok) # users
       IN IF ~db_ok
          THEN /\ last' = Result("book_appointment", d, "time", t,
                                 FALSE, "exception", "none", "none")
               /\ UNCHANGED <<patients, appointments, users, token_file, user_sessions>>
          ELSE IF ~has_access_token(oauth_token)
          THEN /\ last' = Result("book_appointment", d, "time", t,
                                 FALSE, "no_oauth_token", "fail", "none")
               /\ UNCHANGED <<token_file, user_sessions>>
               /\ users' = users_after_get_token(d, refresh_ok)
               /\ UNCHANGED <<patients, appointments>>
          ELSE IF ~commit_ok
          THEN /\ last' = Result("book_appointment", d, "time", t,
                                 FALSE, "exception", "ok", "fail")
               /\ UNCHANGED <<token_file, user_sessions>>
               /\ users' = users_after_get_token(d, refresh_ok)
               /\ patients' = IF committed_by_refresh
                              THEN patients_with(d, phone) ELSE patients
               /\ UNCHANGED appointments
          ELSE /\ patients' = patients_with(d, phone)
               /\ appointments' = Append(appointments, row)
               /\ UNCHANGED <<token_file, user_sessions>>
               /\ users' = users_after_get_token(d, refresh_ok)
               /\ last' = Result("book_appointment", d, "appt",
                                 Len(appointments) + 1,
                                 TRUE, "ok", "ok", "ok")

cancel_appointment(d, id, db_ok, refresh_ok, commit_ok) ==
    /\ UNCHANGED <<now, patients, events, pending>>
    /\ LET found == id \in ApptIds /\ appointments[id].doctor_id = d
           linked == found /\ appointments[id].calendar_event_id # NoId
           oauth_token == get_user_oauth_token(d, refresh_ok)
       IN IF ~db_ok
          THEN /\ last' = Result("cancel_appointment", d, "appt", id,
                                 FALSE, "exception", "none", "none")
               /\ UNCHANGED <<appointments, users, token_file, user_sessions>>
          ELSE IF ~found
          THEN /\ last' = Result("cancel_appointment", d, "appt", id,
                                 FALSE, "not_found", "none", "none")
               /\ UNCHANGED <<appointments, users, token_file, user_sessions>>
          ELSE IF linked /\ ~has_access_token(oauth_token)
          THEN /\ last' = Result("cancel_appointment", d, "appt", id,
                                 FALSE, "no_oauth_token", "fail", "none")
               /\ UNCHANGED <<token_file, user_sessions>>
               /\ users' = users_after_get_token(d, refresh_ok)
               /\ UNCHANGED appointments
          ELSE IF ~commit_ok
          THEN /\ last' = Result("cancel_appointment", d, "appt", id,
                                 FALSE, "exception",
                                 IF linked THEN "ok" ELSE "none", "fail")
               /\ UNCHANGED <<token_file, user_sessions>>
               /\ users' = IF linked THEN users_after_get_token(d, refresh_ok)
                           ELSE users
               /\ UNCHANGED appointments
          ELSE /\ appointments' =
                      [appointments EXCEPT ![id].status = "cancelled"]
               /\ UNCHANGED <<token_file, user_sessions>>
               /\ users' = IF linked THEN users_after_get_token(d, refresh_ok)
                           ELSE users
               /\ last' = Result("cancel_appointment", d, "appt", id,
                                 TRUE, "ok",
                                 IF linked THEN "ok" ELSE "none", "ok")

(***************************************************************************)
(* Handlers of the API module (src/api/main.py) on the local store.        *)
(***************************************************************************)
None == "none"
\* AppointmentUpdate.status is any string; these are the ones sent.
UpdateStatuses == AppointmentStatus \cup {None}
\* AppointmentUpdate.time: absent (0) or 09:30.
UpdateTimes == {0, 570}

update_appointment(d, argk, arg, req_status, req_time, commit_ok) ==
    /\ UNCHANGED <<now, patients, events, pending, users, token_file, user_sessions>>
    /\ LET a == find_appointment_by_id_or_calendar_id(d, argk, arg)
       IN IF a = NoId
          THEN /\ last' = Result("update_appointment", d, argk, arg,
                                 FALSE, "not_found", "none", "none")
               /\ UNCHANGED appointments
          ELSE IF ~commit_ok
          THEN /\ last' = Result("update_appointment", d, argk, arg,
                                 FALSE, "update_failed", "none", "fail")
               /\ UNCHANGED appointments
          ELSE /\ appointments' =
                      [appointments EXCEPT
                          ![a].time = IF req_time = 0 THEN @ ELSE req_time,
                          ![a].status = IF req_status = None THEN @
                                        ELSE req_status]
               /\ last' = Result("update_appointment", d, argk, arg,
                                 TRUE, "ok", "none", "ok")

delete_appointment(d, argk, arg, commit_ok) ==
    /\ UNCHANGED <<now, patients, events, pending, users, token_file, user_sessions>>
    /\ LET a == find_appointment_by_id_or_calendar_id(d, argk, arg)
       IN IF a = NoId
          THEN /\ last' = Result("delete_appointment", d, argk, arg,
                                 FALSE, "not_found", "none", "none")
               /\ UNCHANGED appointments
          ELSE IF ~commit_ok
          THEN /\ last' = Result("delete_appointment", d, argk, arg,
                                 FALSE, "cancel_failed", "none", "fail")
               /\ UNCHANGED appointments
          ELSE /\ appointments' =
                      [appointments EXCEPT ![a].status = "cancelled"]
               /\ last' = Result("delete_appointment", d, argk, arg,
                                 TRUE, "ok", "none", "ok")

confirm_appointment(d, argk, arg, commit_ok) ==
    /\ UNCHANGED <<now, patients, events, pending, users, token_file, user_sessions>>
    /\ LET a == find_appointment_by_id_or_calendar_id(d, argk, arg)
       IN IF a = NoId
          THEN /\ last' = Result("confirm_appointment", d, argk, arg,
                                 FALSE, "not_found", "none", "none")
               /\ UNCHANGED appointments
          ELSE IF ~commit_ok
          THEN /\ last' = Result("confirm_appointment", d, argk, arg,
                                 FALSE, "confirm_failed", "none", "fail")
               /\ UNCHANGED appointments
          ELSE /\ appointments' =
                      [appointments EXCEPT ![a].status = "confirmed"]
               /\ last' = Result("confirm_appointment", d, argk, arg,
                                 TRUE, "ok", "none", "ok")

\* A relabelling that rewrites the title and forgets the Status field.
no_show_event_title_only(event) ==
    [event EXCEPT !.summary = build_no_show_summary(@)]

\* update_calendar_event_no_show: the event as it is written back.
no_show_event(event) ==
    [event EXCEPT
        !.description = update_description_field(@, "Status", "no_show"),
        !.summary = build_no_show_summary(@)]

mark_appointment_no_show(d, argk, arg, refresh_ok, db_ok, api_ok, commit_ok) ==
    /\ UNCHANGED <<now, patients, pending>>
    /\ UNCHANGED <<token_file, user_sessions>>
    /\ users' = users_after_get_token(d, refresh_ok)
    /\ LET a == find_appointment_by_id_or_calendar_id(d, argk, arg)
           \* resolve_calendar_credentials
           tok == has_access_token(get_user_oauth_token(d, refresh_ok))
           \* appointment.calendar_event_id if appointment else appointment_id
           ev == IF a # NoId THEN appointments[a].calendar_event_id
                 ELSE IF argk = "event" THEN arg ELSE NoId
       IN IF ~tok
          THEN /\ last' = Result("mark_appointment_no_show", d, argk, arg,
                                 FALSE, "not_connected", "none", "none")
               /\ UNCHANGED <<appointments, events>>
          ELSE IF ~db_ok
          THEN /\ last' = Result("mark_appointment_no_show", d, argk, arg,
                                 FALSE, "no_show_failed", "none", "none")
               /\ UNCHANGED <<appointments, events>>
          ELSE IF ~get_event(d, ev)
          THEN /\ last' = Result("mark_appointment_no_show", d, argk, arg,
                                 FALSE, "not_found", "fail", "none")
               /\ UNCHANGED <<appointments, events>>
          ELSE IF ~api_ok
          THEN /\ last' = Result("mark_appointment_no_show", d, argk, arg,
                                 FALSE, "calendar_update_failed", "fail", "none")
               /\ UNCHANGED <<appointments, events>>
          ELSE /\ events' = [events EXCEPT ![ev] = no_show_event(@)]
               /\ IF a = NoId
                  THEN /\ last' = Result("mark_appointment_no_show", d, argk,
                                         arg, TRUE, "ok", "ok", "none")
                       /\ UNCHANGED appointments
                  ELSE IF ~commit_ok
                  THEN /\ last' = Result("mark_appointment_no_show", d, argk,
                                         arg, FALSE, "no_show_failed",
                                         "ok", "fail")
                       /\ UNCHANGED appointments
                  ELSE /\ appointments' =
                              [appointments EXCEPT ![a].status = "no_show"]
                       /\ last' = Result("mark_appointment_no_show", d, argk,
                                         arg, TRUE, "ok", "ok", "ok")

mark_calendar_appointment_no_show(d, id, refresh_ok, api_ok) ==
    /\ UNCHANGED <<now, patients, appointments, pending>>
    /\ UNCHANGED <<token_file, user_sessions>>
    /\ users' = users_after_get_token(d, refresh_ok)
    /\ LET tok == has_access_token(get_user_oauth_token(d, refresh_ok))
       IN
       IF ~tok
       THEN /\ last' = Result("mark_calendar_appointment_no_show", d, "event",
                              id, FALSE, "not_connected", "none", "none")
            /\ UNCHANGED events
       ELSE IF ~get_event(d, id)
       THEN /\ last' = Result("mark_calendar_appointment_no_show", d, "event",
                              id, FALSE, "not_found", "fail", "none")
            /\ UNCHANGED events
       ELSE IF ~api_ok
       THEN /\ last' = Result("mark_calendar_appointment_no_show", d, "event",
                              id, FALSE, "calendar_update_failed", "fail", "none")
            /\ UNCHANGED events
       ELSE /\ events' = [events EXCEPT ![id] = no_show_event(@)]
            /\ last' = Result("mark_calendar_appointment_no_show", d, "event",
                              id, TRUE, "ok", "ok", "none")

NextStore ==
    \/ \E d \in Doctors, phone \in Phones, t \in ReqTimes,
          db_ok \in BOOLEAN, refresh_ok \in BOOLEAN, commit_ok \in BOOLEAN :
          book_appointment(d, phone, t, db_ok, refresh_ok, commit_ok)
    \/ \E d \in Doctors, id \in 1..(MaxAppts + 1),
          db_ok \in BOOLEAN, refresh_ok \in BOOLEAN, commit_ok \in BOOLEAN :
          cancel_appointment(d, id, db_ok, refresh_ok, commit_ok)
    \/ \E d \in Doctors, argk \in RefKinds, arg \in RefIds,
          req_status \in UpdateStatuses, req_time \in UpdateTimes,
          commit_ok \in BOOLEAN :
          update_appointment(d, argk, arg, req_status, req_time, commit_ok)
    \/ \E d \in Doctors, argk \in RefKinds, arg \in RefIds,
          commit_ok \in BOOLEAN :
          delete_appointment(d, argk, arg, commit_ok)
    \/ \E d \in Doctors, argk \in RefKinds, arg \in RefIds,
          commit_ok \in BOOLEAN :
          confirm_appointment(d, argk, arg, commit_ok)
    \/ \E d \in Doctors, argk \in RefKinds, arg \in RefIds,
          refresh_ok \in BOOLEAN, db_ok \in BOOLEAN, api_ok \in BOOLEAN,
          commit_ok \in BOOLEAN :
          mark_appointment_no_show(d, argk, arg, refresh_ok, db_ok, api_ok,
                                   commit_ok)
    \/ \E d \in Doctors, id \in RefIds, refresh_ok \in BOOLEAN,
          api_ok \in BOOLEAN :
          mark_calendar_appointment_no_show(d, id, refresh_ok, api_ok)

SpecStore == Init /\ [][NextStore]_vars

(***************************************************************************)
(* CalendarService (src/services/calendar_service.py) and the agent        *)
(* endpoints that call it.  The service works on the calendar of the one   *)
(* connected account.                                                      *)
(***************************************************************************)
InFlight == {r \in Requests : pending[r] # NoRequest}

\* The request a new call runs as: the first one that is not in flight.
FreeRequest(r) ==
    /\ pending[r] = NoRequest
    /\ \A q \in Requests : pending[q] = NoRequest => RequestOrder(r) <= RequestOrder(q)

\* CalendarService.create_appointment, the event it inserts.
new_event(phone, t) ==
    [cal |-> SingleTenantDoctor,
     summary |-> <<"Appointment:", PatientName>>,
     description |-> build_event_description(PatientName, phone,
                                             "scheduled", FALSE),
     start_time |-> t, end_time |-> t + duration_minutes]

\* CalendarService.create_appointment up to the availability check.
create_appointment_check(r, phone, t, conn, fb) ==
    /\ FreeRequest(r)
    /\ Len(events) + Cardinality(InFlight) < MaxEvents
    /\ UNCHANGED <<now, patients, appointments, events, users, token_file, user_sessions>>
    /\ IF ~conn
       THEN /\ last' = Result("create_appointment", SingleTenantDoctor,
                              "time", t, FALSE, "not_connected", "none", "none")
            /\ UNCHANGED pending
       ELSE IF fb = "raises"
       THEN /\ last' = Result("create_appointment", SingleTenantDoctor,
                              "time", t, FALSE, "freebusy_failed", "fail", "none")
            /\ UNCHANGED pending
       ELSE IF ~is_slot_available(SingleTenantDoctor, t, fb)
       THEN /\ last' = Result("create_appointment", SingleTenantDoctor,
                              "time", t, FALSE, "slot_unavailable", "none", "none")
            /\ UNCHANGED pending
       ELSE /\ pending' = [pending EXCEPT ![r] =
                   [op |-> "create_appointment", phone |-> phone, time |-> t]]
            /\ last' = Result("create_appointment_check", SingleTenantDoctor,
                              "time", t, TRUE, "checked", "none", "none")

\* agent_schedule_appointment up to the availability check: the patient is
\* found or created and committed first.
agent_schedule_appointment_check(r, phone, t, conn, fb) ==
    /\ FreeRequest(r)
    /\ Len(events) + Cardinality(InFlight) < MaxEvents
    /\ patient_by_phone(phone) # NoId \/ Len(patients) < MaxPatients
    /\ UNCHANGED <<now, appointments, events, users, token_file, user_sessions>>
    /\ patients' = IF patient_by_phone(phone) # NoId THEN patients
                   ELSE Append(patients, [doctor_id |-> SingleTenantDoctor,
                                          phone |-> phone])
    /\ IF ~conn
       THEN /\ last' = Result("agent_schedule_appointment", SingleTenantDoctor,
                              "time", t, FALSE, "not_connected", "none", "none")
            /\ UNCHANGED pending
       ELSE IF fb = "raises"
       THEN /\ last' = Result("agent_schedule_appointment", SingleTenantDoctor,
                              "time", t, FALSE, "freebusy_failed", "fail", "none")
            /\ UNCHANGED pending
       ELSE IF ~is_slot_available(SingleTenantDoctor, t, fb)
       THEN /\ last' = Result("agent_schedule_appointment", SingleTenantDoctor,
                              "time", t, FALSE, "slot_unavailable", "none", "none")
            /\ UNCHANGED pending
       ELSE /\ pending' = [pending EXCEPT ![r] =
                   [op |-> "agent_schedule_appointment", phone |-> phone,
                    time |-> t]]
            /\ last' = Result("agent_schedule_appointment_check",
                              SingleTenantDoctor, "time", t,
                              TRUE, "checked", "none", "none")

\* CalendarService.create_appointment from create_event on.
create_appointment_write(r, api_ok) ==
    /\ pending[r] # NoRequest
    /\ UNCHANGED <<now, patients, appointments, users, token_file, user_sessions>>
    /\ pending' = [pending EXCEPT ![r] = NoRequest]
    /\ IF ~api_ok
       THEN /\ last' = Result(pending[r].op, SingleTenantDoctor, "time",
                              pending[r].time, FALSE, "book_failed",
                              "fail", "none")
            /\ UNCHANGED events
       ELSE /\ events' = Append(events,
                                new_event(pending[r].phone, pending[r].time))
            /\ last' = Result(pending[r].op, SingleTenantDoctor, "event",
                              Len(events) + 1, TRUE, "ok", "ok", "none")

\* CalendarService.reschedule_appointment, the event it writes back.
rescheduled_event(event, t) ==
    [event EXCEPT
        !.start_time = t,
        !.end_time = t + duration_minutes,
        !.description = replace_in_description(@, "Reminder Sent",
                                               "true", "false")]

\* CalendarService.cancel_appointment with an update that appends a new
\* Status line on every call instead of rewriting the existing one.
cancelled_event_appending(event) ==
    [event EXCEPT
        !.description = Append(@, <<"Status", "cancelled">>),
        !.summary = replace_prefix(@, "CANCELLED:")]

\* CalendarService.cancel_appointment, the event it writes back.
cancelled_event(event) ==
    [event EXCEPT
        !.description =
            CalendarService_update_description_field(@, "Status", "cancelled"),
        !.summary = replace_prefix(@, "CANCELLED:")]

\* CalendarService.mark_reminder_sent, the event it writes back.
reminded_event(event) ==
    [event EXCEPT
        !.description =
            CalendarService_update_description_field(@, "Reminder Sent", "true")]

\* CalendarService.mark_no_show, the event it writes back.
CalendarService_no_show_event(event) ==
    [event EXCEPT
        !.description =
            CalendarService_update_description_field(@, "Status", "no_show"),
        !.summary = replace_prefix(@, "NO SHOW:")]

\* One call of a CalendarService method that rewrites an event: op names
\* the caller, written is the event as the method writes it back.
rewrite_event(op, id, written, conn, api_ok, failure) ==
    /\ UNCHANGED <<now, patients, appointments, pending, users, token_file, user_sessions>>
    /\ IF ~conn
       THEN /\ last' = Result(op, SingleTenantDoctor, "event", id,
                              FALSE, "not_connected", "none", "none")
            /\ UNCHANGED events
       ELSE IF ~get_event(SingleTenantDoctor, id)
       THEN /\ last' = Result(op, SingleTenantDoctor, "event", id,
                              FALSE, "not_found", "none", "none")
            /\ UNCHANGED events
       ELSE IF ~api_ok
       THEN /\ last' = Result(op, SingleTenantDoctor, "event", id,
                              FALSE, failure, "fail", "none")
            /\ UNCHANGED events
       ELSE /\ events' = [events EXCEPT ![id] = written]
            /\ last' = Result(op, SingleTenantDoctor, "event", id,
                              TRUE, "ok", "ok", "none")

\* CalendarService.reschedule_appointment: the slot is checked before the
\* event is looked up.
reschedule(op, id, t, conn, fb, api_ok) ==
    IF conn /\ fb = "raises"
    THEN /\ last' = Result(op, SingleTenantDoctor, "event", id,
                           FALSE, "freebusy_failed", "fail", "none")
         /\ UNCHANGED <<now, patients, appointments, events, pending, users, token_file, user_sessions>>
    ELSE IF conn /\ ~is_slot_available(SingleTenantDoctor, t, fb)
    THEN /\ last' = Result(op, SingleTenantDoctor, "event", id,
                           FALSE, "slot_unavailable", "none", "none")
         /\ UNCHANGED <<now, patients, appointments, events, pending, users, token_file, user_sessions>>
    ELSE rewrite_event(op, id,
                       IF id \in EventIds THEN rescheduled_event(events[id], t)
                       ELSE NoRequest,
                       conn, api_ok, "reschedule_failed")

CalendarService_reschedule_appointment(id, t, conn, fb, api_ok) ==
    reschedule("reschedule_appointment", id, t, conn, fb, api_ok)

CalendarService_cancel_appointment(id, conn, api_ok) ==
    rewrite_event("cancel_appointment", id,
                  IF id \in EventIds THEN cancelled_event(events[id])
                  ELSE NoRequest,
                  conn, api_ok, "cancel_failed")

CalendarService_mark_reminder_sent(id, conn, api_ok) ==
    rewrite_event("mark_reminder_sent", id,
                  IF id \in EventIds THEN reminded_event(events[id])
                  ELSE NoRequest,
                  conn, api_ok, "update_failed")

CalendarService_mark_no_show(id, conn, api_ok) ==
    rewrite_event("mark_no_show", id,
                  IF id \in EventIds THEN CalendarService_no_show_event(events[id])
                  ELSE NoRequest,
                  conn, api_ok, "update_failed")

\* The agent endpoints ask only that some patient has the caller's phone.
patient_not_found(op, id) ==
    /\ last' = Result(op, SingleTenantDoctor, "event", id,
                      FALSE, "patient_not_found", "none", "none")
    /\ UNCHANGED <<now, patients, appointments, events, pending, users, token_file, user_sessions>>

agent_reschedule_appointment(phone, id, t, conn, fb, api_ok) ==
    IF patient_by_phone(phone) = NoId
    THEN patient_not_found("agent_reschedule_appointment", id)
    ELSE reschedule("agent_reschedule_appointment", id, t, conn, fb, api_ok)

agent_cancel_appointment(phone, id, conn, api_ok) ==
    IF patient_by_phone(phone) = NoId
    THEN patient_not_found("agent_cancel_appointment", id)
    ELSE rewrite_event("agent_cancel_appointment", id,
                       IF id \in EventIds THEN cancelled_event(events[id])
                       ELSE NoRequest,
                       conn, api_ok, "cancel_failed")

\* CalendarService.check_availability for one day: the slots it returns.
\* _get_service raises when no account is connected, the free/busy query
\* may raise; nothing in the method catches either.
CalendarService_check_availability(conn, fb) ==
    /\ UNCHANGED <<now, patients, appointments, events, pending, users, token_file, user_sessions>>
    /\ IF ~conn
       THEN last' = Result("CalendarService.check_availability",
                           SingleTenantDoctor, "none", NoId,
                           FALSE, "not_connected", "none", "none")
       ELSE IF fb = "raises"
       THEN last' = Result("CalendarService.check_availability",
                           SingleTenantDoctor, "none", NoId,
                           FALSE, "freebusy_failed", "fail", "none")
       ELSE last' = ResultWith("CalendarService.check_availability",
                               SingleTenantDoctor, "none", NoId,
                               TRUE, "ok",
                               IF fb = "busy" THEN "ok" ELSE "fail", "none",
                               check_availability(SingleTenantDoctor, fb))

\* The results that leave a CalendarService method as an exception: the
\* ConnectionError of _get_service and the error of the free/busy query.
\* The agent endpoints catch them and answer with the error text.
RaisedByCalendarService == {"not_connected", "freebusy_failed"}

EventRefs == 1..(MaxEvents + 1)

NextCalendar ==
    \/ \E r \in Requests, t \in ReqTimes, conn \in BOOLEAN,
          fb \in FreeBusyAnswers :
          create_appointment_check(r, "+15550001", t, conn, fb)
    \/ \E r \in Requests, api_ok \in BOOLEAN :
          create_appointment_write(r, api_ok)
    \/ \E id \in EventRefs, t \in ReqTimes, conn \in BOOLEAN,
          fb \in FreeBusyAnswers, api_ok \in BOOLEAN :
          CalendarService_reschedule_appointment(id, t, conn, fb, api_ok)
    \/ \E id \in EventRefs, conn \in BOOLEAN, api_ok \in BOOLEAN :
          CalendarService_cancel_appointment(id, conn, api_ok)
    \/ \E id \in EventRefs, conn \in BOOLEAN, api_ok \in BOOLEAN :
          CalendarService_mark_reminder_sent(id, conn, api_ok)
    \/ \E id \in EventRefs, conn \in BOOLEAN, api_ok \in BOOLEAN :
          CalendarService_mark_no_show(id, conn, api_ok)
    \/ \E conn \in BOOLEAN, fb \in FreeBusyAnswers :
          CalendarService_check_availability(conn, fb)

SpecCalendar == Init /\ [][NextCalendar]_vars

NextAgent ==
    \/ \E r \in Requests, phone \in Phones, t \in ReqTimes, conn \in BOOLEAN,
          fb \in FreeBusyAnswers :
          agent_schedule_appointment_check(r, phone, t, conn, fb)
    \/ \E r \in Requests, api_ok \in BOOLEAN :
          create_appointment_write(r, api_ok)
    \/ \E phone \in Phones, id \in EventRefs, t \in ReqTimes,
          conn \in BOOLEAN, fb \in FreeBusyAnswers, api_ok \in BOOLEAN :
          agent_reschedule_appointment(phone, id, t, conn, fb, api_ok)
    \/ \E phone \in Phones, id \in EventRefs, conn \in BOOLEAN, api_ok \in BOOLEAN :
          agent_cancel_appointment(phone, id, conn, api_ok)

SpecAgent == Init /\ [][NextAgent]_vars

(***************************************************************************)
(* The appointment functions of src/calendar/appointments.py: they work    *)
(* on the calendar event alone and rewrite its text with str.replace.      *)
(***************************************************************************)
\* One call: get the event, rewrite it, update it; any exception (no such
\* event, a failed call) becomes the failure result.
replace_event(op, id, written, api_ok, failure) ==
    /\ UNCHANGED <<now, patients, appointments, pending, users, token_file, user_sessions>>
    /\ IF ~get_event(SingleTenantDoctor, id) \/ ~api_ok
       THEN /\ last' = Result(op, SingleTenantDoctor, "event", id,
                              FALSE, failure, "fail", "none")
            /\ UNCHANGED events
       ELSE /\ events' = [events EXCEPT ![id] = written]
            /\ last' = Result(op, SingleTenantDoctor, "event", id,
                              TRUE, "ok", "ok", "none")

appointments_cancelled_event(event) ==
    [event EXCEPT
        !.description =
            replace_in_description(
                replace_in_description(@, "Status", "scheduled", "cancelled"),
                "Status", "confirmed", "cancelled"),
        !.summary = replace_prefix(@, "CANCELLED:")]

appointments_reminded_event(event) ==
    [event EXCEPT
        !.description = replace_in_description(@, "Reminder Sent",
                                               "false", "true")]

appointments_no_show_event(event) ==
    [event EXCEPT
        !.description =
            replace_in_description(
                replace_in_description(@, "Status", "scheduled", "no_show"),
                "Status", "confirmed", "no_show"),
        !.summary = replace_prefix(@, "NO SHOW:")]

appointments_cancel_appointment(id, api_ok) ==
    replace_event("appointments.cancel_appointment", id,
                  IF id \in EventIds THEN appointments_cancelled_event(events[id])
                  ELSE NoRequest,
                  api_ok, "cancel_failed")

appointments_reschedule_appointment(id, t, fb, api_ok) ==
    IF fb = "raises"
    THEN /\ last' = Result("appointments.reschedule_appointment",
                           SingleTenantDoctor, "event", id,
                           FALSE, "freebusy_failed", "fail", "none")
         /\ UNCHANGED <<now, patients, appointments, events, pending, users, token_file, user_sessions>>
    ELSE IF ~is_slot_available(SingleTenantDoctor, t, fb)
    THEN /\ last' = Result("appointments.reschedule_appointment",
                           SingleTenantDoctor, "event", id,
                           FALSE, "slot_unavailable", "none", "none")
         /\ UNCHANGED <<now, patients, appointments, events, pending, users, token_file, user_sessions>>
    ELSE replace_event("appointments.reschedule_appointment", id,
                       IF id \in EventIds THEN rescheduled_event(events[id], t)
                       ELSE NoRequest,
                       api_ok, "reschedule_failed")

appointments_mark_reminder_sent(id, api_ok) ==
    replace_event("appointments.mark_reminder_sent", id,
                  IF id \in EventIds THEN appointments_reminded_event(events[id])
                  ELSE NoRequest,
                  api_ok, "update_failed")

appointments_mark_no_show(id, api_ok) ==
    replace_event("appointments.mark_no_show", id,
                  IF id \in EventIds THEN appointments_no_show_event(events[id])
                  ELSE NoRequest,
                  api_ok, "update_failed")

NextAppointments ==
    \/ \E id \in EventRefs, api_ok \in BOOLEAN :
          appointments_cancel_appointment(id, api_ok)
    \/ \E id \in EventRefs, t \in ReqTimes, fb \in FreeBusyAnswers,
          api_ok \in BOOLEAN :
          appointments_reschedule_appointment(id, t, fb, api_ok)
    \/ \E id \in EventRefs, api_ok \in BOOLEAN :
          appointments_mark_reminder_sent(id, api_ok)
    \/ \E id \in EventRefs, api_ok \in BOOLEAN :
          appointments_mark_no_show(id, api_ok)

SpecAppointments == Init /\ [][NextAppointments]_vars

(***************************************************************************)
(* The OAuth handlers (src/auth/service.py, src/api/main.py): connecting,  *)
(* disconnecting and looking up a doctor's credential while time passes.   *)
(***************************************************************************)
TickMinutes == 30
\* The refresh token a code exchange answers with: "" when the provider
\* leaves it out (a consent given before).
IssuedRefreshTokens == {"", "rt3"}

\* The clock moves on between two requests.
Tick ==
    /\ now < ClockStart + MaxTicks * TickMinutes
    /\ now' = now + TickMinutes
    /\ UNCHANGED <<patients, appointments, events, pending, last, users, token_file, user_sessions>>

\* create_or_update_user for a user that exists: the OAuth callback.
create_or_update_user(u, refresh_token, with_expiry, commit_ok) ==
    /\ UNCHANGED <<now, patients, appointments, events, pending>>
    /\ LET oauth_token_data ==
               token_data(issue_token(stored_access_token(u)), refresh_token,
                          IF with_expiry THEN now + TokenLifetime ELSE NoExpiry)
       IN IF ~commit_ok
          THEN /\ last' = Result("create_or_update_user", u, "none", NoId,
                                 FALSE, "exception", "ok", "fail")
               /\ UNCHANGED <<users, token_file, user_sessions>>
          ELSE /\ UNCHANGED <<token_file, user_sessions>>
               /\ users' = [users EXCEPT ![u] =
                      [google_oauth_token |-> <<oauth_token_data>>,
                       google_refresh_token |-> refresh_token,
                       google_token_expiry |->
                           IF with_expiry THEN oauth_token_data.expiry
                           ELSE users[u].google_token_expiry]]
               /\ last' = Result("create_or_update_user", u, "none", NoId,
                                 TRUE, "ok", "ok", "ok")

disconnect_calendar(u, commit_ok) ==
    /\ UNCHANGED <<now, patients, appointments, events, pending>>
    /\ IF ~commit_ok
       THEN /\ last' = Result("disconnect_calendar", u, "none", NoId,
                              FALSE, "exception", "none", "fail")
            /\ UNCHANGED <<users, token_file, user_sessions>>
       ELSE /\ UNCHANGED <<token_file, user_sessions>>
            /\ users' = [users EXCEPT ![u] = DisconnectedUser]
            /\ last' = Result("disconnect_calendar", u, "none", NoId,
                              TRUE, "ok", "none", "ok")

\* One call of get_user_oauth_token: what it returns and what the refresh
\* it may run leaves in the users table.
get_user_oauth_token_call(u, refresh_ok) ==
    /\ UNCHANGED <<now, patients, appointments, events, pending>>
    /\ UNCHANGED <<token_file, user_sessions>>
    /\ users' = users_after_get_token(u, refresh_ok)
    /\ LET returned == get_user_oauth_token(u, refresh_ok)
       IN last' = ResultWith("get_user_oauth_token", u, "none", NoId,
                             returned # <<>>,
                             IF returned # <<>> THEN "ok" ELSE "none",
                             IF ~refresh_attempted(u) THEN "none"
                             ELSE IF refresh_user_oauth_token(u, refresh_ok)
                                  THEN "ok" ELSE "fail",
                             IF refresh_attempted(u)
                                /\ refresh_user_oauth_token(u, refresh_ok)
                             THEN "ok" ELSE "none",
                             returned)

NextAuth ==
    \/ Tick
    \/ \E u \in Doctors, refresh_token \in IssuedRefreshTokens,
          with_expiry \in BOOLEAN, commit_ok \in BOOLEAN :
          create_or_update_user(u, refresh_token, with_expiry, commit_ok)
    \/ \E u \in Doctors, commit_ok \in BOOLEAN :
          disconnect_calendar(u, commit_ok)
    \/ \E u \in Doctors, refresh_ok \in BOOLEAN :
          get_user_oauth_token_call(u, refresh_ok)

SpecAuth == Init /\ [][NextAuth]_vars

(***************************************************************************)
(* The proxy functions the voice agent and the frontend call               *)
(* (src/calendar/service.py): what they answer with.                       *)
(***************************************************************************)
\* 2026-02-09 is the Monday the dummy calendar books out, 2026-02-10 a
\* Tuesday, 2026-02-14 a Saturday.
Dates == {"2026-02-09", "2026-02-10", "2026-02-14"}

\* date_obj.strftime("%A")
day_name(date) ==
    CASE date = "2026-02-09" -> "Monday"
      [] date = "2026-02-10" -> "Tuesday"
      [] OTHER -> "Saturday"

get_dummy_available_slots(date) ==
    IF date = "2026-02-09" THEN <<>>
    ELSE IF day_name(date) \in {"Saturday", "Sunday"} THEN <<>>
    ELSE [i \in 1..6 |->
             [date |-> date,
              time |-> <<"09:00", "10:00", "11:00", "14:00", "15:00", "16:00">>[i],
              duration_minutes |-> duration_minutes]]

\* call_calendar_mcp: the CalendarServiceError it raises (raised) or the
\* mock answer it returns.  The Authorization header is built and dropped.
call_calendar_mcp(oauth_token, operation, kwargs) ==
    IF oauth_token = <<>>
    THEN [raised |-> "User has no valid OAuth token", result |-> <<>>]
    ELSE IF oauth_token[1].access_token = ""
    THEN [raised |-> "No access token in OAuth data", result |-> <<>>]
    ELSE LET headers == [Authorization |-> <<"Bearer", oauth_token[1].access_token>>,
                         ContentType |-> "application/json"]
         IN [raised |-> "",
             result |-> <<[success |-> TRUE, operation |-> operation,
                           data |-> kwargs]>>]

\* An answer that carries the bearer token along.
check_availability_with_authorization(oauth_token, date) ==
    [success |-> TRUE, date |-> date,
     available_slots |-> get_dummy_available_slots(date),
     authorization |-> IF oauth_token = <<>> THEN ""
                       ELSE oauth_token[1].access_token]

\* check_availability of the proxy: the dict it returns.
proxy_check_availability(oauth_token, date) ==
    LET mcp == call_calendar_mcp(oauth_token, "get_available_slots",
                                 [date |-> date,
                                  duration_minutes |-> duration_minutes,
                                  buffer_minutes |-> buffer_minutes])
    IN IF mcp.raised # ""
       THEN [success |-> FALSE, error |-> mcp.raised]
       ELSE IF ~mcp.result[1].success
       THEN [success |-> FALSE,
             error |-> "Could not check calendar availability"]
       ELSE [success |-> TRUE, date |-> date,
             available_slots |-> get_dummy_available_slots(date)]

check_availability_call(d, date, refresh_ok) ==
    /\ UNCHANGED <<now, patients, appointments, events, pending>>
    /\ UNCHANGED <<token_file, user_sessions>>
    /\ users' = users_after_get_token(d, refresh_ok)
    /\ LET response == proxy_check_availability(
                           get_user_oauth_token(d, refresh_ok), date)
       IN last' = ResultWith("check_availability", d, "none", NoId,
                             response.success,
                             IF response.success THEN "ok" ELSE response.error,
                             IF response.success THEN "ok" ELSE "fail",
                             "none", <<response>>)

\* order_by(Appointment.date, Appointment.time): the ids of rows, sorted.
RECURSIVE order_by_time(_)
order_by_time(ids) ==
    IF ids = {} THEN <<>>
    ELSE LET first == CHOOSE i \in ids :
                          \A j \in ids :
                              \/ appointments[i].time < appointments[j].time
                              \/ (appointments[i].time = appointments[j].time
                                  /\ i <= j)
         IN <<first>> \o order_by_time(ids \ {first})

\* get_upcoming_appointments: the list it returns.
get_upcoming_appointments(d) ==
    LET ids == {i \in ApptIds :
                   /\ appointments[i].doctor_id = d
                   /\ appointments[i].status \in {"scheduled", "confirmed"}}
        ordered == order_by_time(ids)
    IN [k \in 1..Len(ordered) |->
           [id |-> ordered[k],
            patient_phone |-> patients[appointments[ordered[k]].patient_id].phone,
            time |-> appointments[ordered[k]].time,
            status |-> appointments[ordered[k]].status]]

get_upcoming_appointments_call(d, db_ok) ==
    /\ UNCHANGED <<now, patients, appointments, events, pending, users, token_file, user_sessions>>
    /\ last' = ResultWith("get_upcoming_appointments", d, "none", NoId,
                          db_ok, IF db_ok THEN "ok" ELSE "exception",
                          "none", "none",
                          IF db_ok THEN get_upcoming_appointments(d) ELSE <<>>)

NextProxy ==
    \/ \E d \in Doctors, date \in Dates, refresh_ok \in BOOLEAN :
          check_availability_call(d, date, refresh_ok)
    \/ \E d \in Doctors, db_ok \in BOOLEAN :
          get_upcoming_appointments_call(d, db_ok)
    \/ \E d \in Doctors, phone \in Phones, t \in ReqTimes,
          db_ok \in BOOLEAN, refresh_ok \in BOOLEAN, commit_ok \in BOOLEAN :
          book_appointment(d, phone, t, db_ok, refresh_ok, commit_ok)
    \/ \E d \in Doctors, id \in 1..(MaxAppts + 1),
          db_ok \in BOOLEAN, refresh_ok \in BOOLEAN, commit_ok \in BOOLEAN :
          cancel_appointment(d, id, db_ok, refresh_ok, commit_ok)

SpecProxy == Init /\ [][NextProxy]_vars

(***************************************************************************)
(* The description codec: Appointment.to_calendar_description and          *)
(* CalendarService._build_event_description write the text,                *)
(* Appointment.from_calendar_event and                                     *)
(* CalendarService._event_to_appointment read it back.  An Optional[str]   *)
(* is <<>> for None and otherwise its lines: the first as a string, each   *)
(* further line (after a "\n" in the value) as a description line.         *)
(***************************************************************************)
NoneValue == <<>>

\* Python's  value or default  on an Optional[str]: None and "" are falsy.
or_default(value, default) ==
    IF value = NoneValue \/ value = <<"">> THEN <<default>> ELSE value

\* str(flag).lower()
bool_text(flag) == IF flag THEN "true" ELSE "false"

\* CalendarService._build_event_description: the f-string, split at "\n".
CalendarService_build_event_description(patient_name, patient_phone, patient_email, appointment_type, status, reminder_sent, notes) ==
    << <<"Patient", patient_name>>,
       <<"Phone", patient_phone>>,
       <<"Email", Head(or_default(patient_email, "N/A"))>>,
       <<"Type", appointment_type>>,
       <<"Status", status>>,
       <<"Reminder Sent", bool_text(reminder_sent)>>,
       <<"Notes", Head(or_default(notes, "None"))>> >>
    \o Tail(or_default(notes, "None"))

\* Appointment.to_calendar_description: the same f-string on the model.
to_calendar_description(x) ==
    CalendarService_build_event_description(
        x.name, x.phone, x.email, x.appointment_type, x.status,
        x.reminder_sent, x.notes)

\* key in parsed
has_key(description, key) ==
    \E i \in 1..Len(description) :
        Len(description[i]) = 2 /\ NormalizeKey(description[i][1]) = key

\* parsed.get(key) if parsed.get(key) != sentinel else None
parsed_optional(description, key, sentinel) ==
    IF ~has_key(description, key) THEN NoneValue
    ELSE LET value == parse_description(description, key, "")
         IN IF value = sentinel THEN NoneValue ELSE <<value>>

\* CalendarService._event_to_appointment: type, with the fallback.
decoded_type(description) ==
    LET s == parse_description(description, "type", "checkup")
    IN IF s \in AppointmentType THEN s ELSE "checkup"

\* CalendarService._event_to_appointment, the fields read from the text.
event_to_appointment(description) ==
    [name |-> parse_description(description, "patient", "Unknown"),
     phone |-> parse_description(description, "phone", ""),
     email |-> parsed_optional(description, "email", "N/A"),
     notes |-> parsed_optional(description, "notes", "None"),
     appointment_type |-> decoded_type(description),
     status |-> decoded_status(description),
     reminder_sent |-> decoded_reminder_sent(description)]

\* Appointment.from_calendar_event: AppointmentType(...) and
\* AppointmentStatus(...) raise ValueError on a value outside the
\* enumeration; <<>> stands for the raise.
from_calendar_event(description) ==
    IF \/ parse_description(description, "type", "checkup")
             \notin AppointmentType
       \/ parse_description(description, "status", "scheduled")
             \notin AppointmentStatus
    THEN <<>>
    ELSE << [name |-> parse_description(description, "patient", "Unknown"),
             phone |-> parse_description(description, "phone", ""),
             email |-> parsed_optional(description, "email", "N/A"),
             notes |-> parsed_optional(description, "notes", "None"),
             appointment_type |->
                 parse_description(description, "type", "checkup"),
             status |-> parse_description(description, "status", "scheduled"),
             reminder_sent |-> decoded_reminder_sent(description)] >>

\* The appointments the codec is applied to: every type, status and flag,
\* the optional fields absent, empty, filled, equal to the text written for
\* an absent one, and notes of more than one line.
Emails == {NoneValue, <<"">>, <<"ann@example.org">>}
NotesValues ==
    {NoneValue, <<"">>, <<"None">>, <<"fasting">>,
     <<"fasting", <<"bring records">> >>,
     <<"fasting", <<"Status", "cancelled">> >>}

Appointments ==
    [name : {PatientName}, phone : {"+15550001"}, email : Emails,
     notes : NotesValues, appointment_type : AppointmentType,
     status : AppointmentStatus, reminder_sent : BOOLEAN]

\* Descriptions as an edit in the calendar UI leaves them: a line removed,
\* a value outside the enumerations, lines reordered, lines added, a field
\* twice, no text at all.
HandEditedDescriptions ==
    { SubSeq(WrittenDescription, 1, 4) \o SubSeq(WrittenDescription, 6, 7),
      [WrittenDescription EXCEPT ![4] = <<"Type", "physio">>],
      [WrittenDescription EXCEPT ![5] = <<"Status", "rescheduled">>],
      [i \in 1..7 |-> WrittenDescription[8 - i]],
      WrittenDescription \o << <<"Room", "4">>, <<"call before the visit">> >>,
      WrittenDescription \o << <<"Status", "confirmed">> >>,
      [WrittenDescription EXCEPT ![5] = <<"Status", "no_show">>],
      <<>> }

\* What a decoder is given: the text the encoder just wrote, or an edited
\* one.
DecoderInputs ==
    HandEditedDescriptions
        \cup (IF last.op = "to_calendar_description"
              THEN {last.value.description} ELSE {})

encoded_from(description) ==
    IF last.op = "to_calendar_description"
       /\ last.value.description = description
    THEN <<last.value.appointment>> ELSE <<>>

to_calendar_description_call(x) ==
    /\ last' = ResultWith("to_calendar_description", "", "none", NoId,
                          TRUE, "ok", "none", "none",
                          [appointment |-> x,
                           description |-> to_calendar_description(x)])
    /\ UNCHANGED <<now, patients, appointments, events, pending, users, token_file, user_sessions>>

event_to_appointment_call(description) ==
    /\ description \in DecoderInputs
    /\ last' = ResultWith("_event_to_appointment", "", "none", NoId,
                          TRUE, "ok", "none", "none",
                          [description |-> description,
                           encoded_from |-> encoded_from(description),
                           decoded |-> <<event_to_appointment(description)>>])
    /\ UNCHANGED <<now, patients, appointments, events, pending, users, token_file, user_sessions>>

from_calendar_event_call(description) ==
    /\ description \in DecoderInputs
    /\ LET decoded == from_calendar_event(description)
       IN last' = ResultWith("from_calendar_event", "", "none", NoId,
                             decoded # <<>>,
                             IF decoded # <<>> THEN "ok" ELSE "ValueError",
                             "none", "none",
                             [description |-> description,
                              encoded_from |-> encoded_from(description),
                              decoded |-> decoded])
    /\ UNCHANGED <<now, patients, appointments, events, pending, users, token_file, user_sessions>>

\* The single-field updates: the descriptions they are given, the fields
\* and the values the handlers write.
UpdateInputs ==
    (HandEditedDescriptions \ {<<>>}) \cup SeedDescriptions

FieldUpdates ==
    { <<"Status", "cancelled">>, <<"Status", "no_show">>,
      <<"Status", "confirmed">>, <<"Reminder Sent", "true">> }

updated(op, description, field, value, after) ==
    /\ last' = ResultWith(op, "", "none", NoId, TRUE, "ok", "none", "none",
                          [description |-> description, field |-> field,
                           value |-> value, updated |-> after])
    /\ UNCHANGED <<now, patients, appointments, events, pending, users, token_file, user_sessions>>

CalendarService_update_description_field_call(description, field, value) ==
    updated("_update_description_field", description, field, value,
            CalendarService_update_description_field(description, field,
                                                     value))

update_description_field_call(description, field, value) ==
    updated("update_description_field", description, field, value,
            update_description_field(description, field, value))

\* cancel_appointment of calendar/appointments.py, its rewrite of the
\* description.
appointments_cancel_description_call(description) ==
    updated("appointments.cancel_appointment", description,
            "Status", "cancelled",
            appointments_cancelled_event(
                SeedEvent(SingleTenantDoctor, description)).description)

NextCodec ==
    \/ \E x \in Appointments : to_calendar_description_call(x)
    \/ \E description \in DecoderInputs :
          event_to_appointment_call(description)
    \/ \E description \in DecoderInputs :
          from_calendar_event_call(description)
    \/ \E description \in UpdateInputs, u \in FieldUpdates :
          CalendarService_update_description_field_call(description,
                                                        u[1], u[2])
    \/ \E description \in UpdateInputs, u \in FieldUpdates :
          update_description_field_call(description, u[1], u[2])
    \/ \E description \in UpdateInputs :
          appointments_cancel_description_call(description)

\* The codec reads no store: its runs start from the empty deployment.
InitCodec ==
    /\ Init
    /\ patients = <<>>

SpecCodec == InitCodec /\ [][NextCodec]_vars

(***************************************************************************)
(* book_appointment (src/calendar/service.py) as requests that run at the  *)
(* same time see it: the patient lookup is one statement, the inserts and  *)
(* the commit come later, and no lock or unique constraint on              *)
(* (doctor_id, phone) joins them.                                          *)
(***************************************************************************)
\* book_appointment up to the patient lookup.
book_appointment_find(r, d, phone, t, db_ok) ==
    /\ FreeRequest(r)
    /\ Len(appointments) + Cardinality(InFlight) < MaxBookings
    /\ Len(patients) + Cardinality(InFlight) < MaxPatients
    /\ UNCHANGED <<now, patients, appointments, events, users, token_file, user_sessions>>
    /\ IF ~db_ok
       THEN /\ last' = Result("book_appointment", d, "time", t,
                              FALSE, "exception", "none", "none")
            /\ UNCHANGED pending
       ELSE /\ pending' = [pending EXCEPT ![r] =
                   [op |-> "book_appointment", phone |-> phone, time |-> t,
                    doctor_id |-> d, patient_id |-> patient_of(d, phone)]]
            /\ last' = Result("book_appointment_find", d, "time", t,
                              TRUE, "checked", "none", "none")

\* book_appointment from the insert of a patient that was not found on:
\* the calendar call with its token lookup, the appointment row, the commit.
book_appointment_commit(r, refresh_ok, commit_ok) ==
    /\ pending[r] # NoRequest
    /\ pending[r].op = "book_appointment"
    /\ UNCHANGED <<now, events>>
    /\ pending' = [pending EXCEPT ![r] = NoRequest]
    /\ LET d == pending[r].doctor_id
           t == pending[r].time
           created == pending[r].patient_id = NoId
           pid == IF created THEN Len(patients) + 1 ELSE pending[r].patient_id
           inserted == IF created
                       THEN Append(patients, [doctor_id |-> d,
                                              phone |-> pending[r].phone])
                       ELSE patients
           row == [doctor_id |-> d, patient_id |-> pid,
                   calendar_event_id |-> mcp_event_id("create_event"),
                   time |-> t, status |-> "scheduled", reminder_sent |-> FALSE]
           oauth_token == get_user_oauth_token(d, refresh_ok)
           committed_by_refresh == users_after_get_token(d, refresh_ok) # users
       IN /\ UNCHANGED <<token_file, user_sessions>>
          /\ users' = users_after_get_token(d, refresh_ok)
          /\ IF ~has_access_token(oauth_token)
             THEN /\ last' = Result("book_appointment", d, "time", t,
                                    FALSE, "no_oauth_token", "fail", "none")
                  /\ UNCHANGED <<patients, appointments>>
             ELSE IF ~commit_ok
             THEN /\ last' = Result("book_appointment", d, "time", t,
                                    FALSE, "exception", "ok", "fail")
                  /\ patients' = IF committed_by_refresh
                                 THEN inserted ELSE patients
                  /\ UNCHANGED appointments
             ELSE /\ patients' = inserted
                  /\ appointments' = Append(appointments, row)
                  /\ last' = Result("book_appointment", d, "appt",
                                    Len(appointments) + 1,
                                    TRUE, "ok", "ok", "ok")

NextBooking ==
    \/ \E r \in Requests, d \in Doctors, phone \in Phones, t \in ReqTimes,
          db_ok \in BOOLEAN :
          book_appointment_find(r, d, phone, t, db_ok)
    \/ \E r \in Requests, refresh_ok \in BOOLEAN, commit_ok \in BOOLEAN :
          book_appointment_commit(r, refresh_ok, commit_ok)

SpecBooking == Init /\ [][NextBooking]_vars

(***************************************************************************)
(* The title rewrite of cancel and no-show.  A title is its words; the     *)
(* handlers are given titles as create_appointment writes them and as an   *)
(* edit in the calendar UI leaves them (the prefix in lower case, the      *)
(* prefix text inside the patient label).                                  *)
(***************************************************************************)
TitleWords == {"Appointment:", "appointment:", "Ann", "Lee"}
MaxTitleWords == 3

Summaries ==
    UNION {[1..n -> TitleWords] : n \in 1..MaxTitleWords}

titled(summary) ==
    [SeedEvent(SingleTenantDoctor, WrittenDescription)
        EXCEPT !.summary = summary]

rewritten(op, summary, prefix, after) ==
    /\ last' = ResultWith(op, "", "none", NoId, TRUE, "ok", "none", "none",
                          [summary |-> summary, prefix |-> prefix,
                           updated |-> after])
    /\ UNCHANGED <<now, patients, appointments, events, pending, users, token_file, user_sessions>>

\* CalendarService.cancel_appointment, the title it writes back.
cancel_summary_call(summary) ==
    rewritten("cancel_appointment.summary", summary, "CANCELLED:",
              cancelled_event(titled(summary)).summary)

\* CalendarService.mark_no_show, the title it writes back.
mark_no_show_summary_call(summary) ==
    rewritten("mark_no_show.summary", summary, "NO SHOW:",
              CalendarService_no_show_event(titled(summary)).summary)

\* build_no_show_summary of the API module.
build_no_show_summary_call(summary) ==
    rewritten("build_no_show_summary", summary, "NO SHOW:",
              build_no_show_summary(summary))

NextTitle ==
    \/ \E summary \in Summaries : cancel_summary_call(summary)
    \/ \E summary \in Summaries : mark_no_show_summary_call(summary)
    \/ \E summary \in Summaries : build_no_show_summary_call(summary)

SpecTitle == InitCodec /\ [][NextTitle]_vars

(***************************************************************************)
(* Slot generation and filtering as check_availability runs them.  The     *)
(* while loop of _generate_time_slots / generate_time_slots is taken one   *)
(* iteration at a time; the call in flight keeps its loop variables in     *)
(* pending.                                                                *)
(***************************************************************************)
\* The duration a caller passes (<<>> for None) and the configurations.
DurationOverrides == {<<>>, <<-30>>, <<0>>, <<60>>, <<600>>}
ConfigDurations == {30, 45}
ConfigBuffers == {0, 30}
ConfigEnds == {630, end_of_day}

\* Iterations after which a loop that is still running is left alone.
MaxSlots == 20

\* CalendarService.check_availability: duration_minutes or self.duration
CalendarService_duration(override, default) ==
    IF override = <<>> \/ override = <<0>> THEN default ELSE override[1]

\* check_availability of calendar/availability.py:
\* if duration_minutes is None: duration_minutes = config default
availability_duration(override, default) ==
    IF override = <<>> THEN default ELSE override[1]

\* current += slot_duration + buffer, with the buffer left out.
next_slot_start_without_buffer(current, duration, buffer) ==
    current + duration

\* current += slot_duration + buffer
next_slot_start(current, duration, buffer) ==
    current + duration + buffer

Generating(r) ==
    pending[r] # NoRequest /\ pending[r].op = "generate_time_slots"

\* The loop is entered: current = start_time, slots = [].
generate_time_slots_begin(r, caller, duration, buffer, end_time) ==
    /\ FreeRequest(r)
    /\ InFlight = {}
    /\ pending' = [pending EXCEPT ![r] =
           [op |-> "generate_time_slots", phone |-> "", time |-> 0,
            caller |-> caller, duration |-> duration, buffer |-> buffer,
            start_time |-> start_of_day, end_time |-> end_time,
            current |-> start_of_day, slots |-> <<>>]]
    /\ last' = Result(caller, "", "none", NoId, TRUE, "checked", "none", "none")
    /\ UNCHANGED <<now, patients, appointments, events, users, token_file, user_sessions>>

\* CalendarService.check_availability up to the loop.
CalendarService_generate_time_slots_begin(r, override, default, buffer, end_time) ==
    generate_time_slots_begin(r, "_generate_time_slots",
                              CalendarService_duration(override, default),
                              buffer, end_time)

\* check_availability of calendar/availability.py up to the loop.
availability_generate_time_slots_begin(r, override, default, buffer, end_time) ==
    generate_time_slots_begin(r, "generate_time_slots",
                              availability_duration(override, default),
                              buffer, end_time)

\* One pass of the loop body: while current + slot_duration <= end_time.
generate_time_slots_iterate(r) ==
    /\ Generating(r)
    /\ pending[r].current + pending[r].duration <= pending[r].end_time
    /\ Len(pending[r].slots) < MaxSlots
    /\ pending' = [pending EXCEPT
           ![r].slots = Append(@, [start |-> pending[r].current,
                                   end |-> pending[r].current
                                           + pending[r].duration]),
           ![r].current = next_slot_start(@, pending[r].duration,
                                          pending[r].buffer)]
    /\ UNCHANGED <<now, patients, appointments, events, users, token_file, user_sessions, last>>

\* The loop condition fails: return slots.
generate_time_slots_return(r) ==
    /\ Generating(r)
    /\ ~(pending[r].current + pending[r].duration <= pending[r].end_time)
    /\ pending' = [pending EXCEPT ![r] = NoRequest]
    /\ last' = ResultWith(pending[r].caller, "", "none", NoId,
                          TRUE, "ok", "none", "none",
                          [duration |-> pending[r].duration,
                           buffer |-> pending[r].buffer,
                           start_time |-> pending[r].start_time,
                           end_time |-> pending[r].end_time,
                           slots |-> pending[r].slots])
    /\ UNCHANGED <<now, patients, appointments, events, users, token_file, user_sessions>>

\* Busy lists the free/busy query answers with, and the clock readings.
BusyIntervals ==
    {[start |-> 555, end |-> 585], [start |-> 570, end |-> 600],
     [start |-> 600, end |-> 660]}
NowValues == {500, 570, 600}

GeneratorOps == {"_generate_time_slots", "generate_time_slots"}

\* The rest of check_availability on the slots the loop returned:
\* _filter_available_slots, then _filter_past_slots.
filter_slots_call(busy_periods, t) ==
    /\ last.op \in GeneratorOps
    /\ last.code = "ok"
    /\ last' = ResultWith("filter_slots", "", "none", NoId,
                          TRUE, "ok", "none", "none",
                          [slots |-> last.value.slots,
                           busy_periods |-> busy_periods,
                           now |-> t,
                           available |->
                               filter_past_slots(
                                   filter_available_slots(last.value.slots,
                                                          busy_periods),
                                   t)])
    /\ UNCHANGED <<now, patients, appointments, events, pending, users, token_file, user_sessions>>

NextSlots ==
    \/ \E r \in Requests, override \in DurationOverrides,
          default \in ConfigDurations, buffer \in ConfigBuffers,
          end_time \in ConfigEnds :
          CalendarService_generate_time_slots_begin(r, override, default,
                                                    buffer, end_time)
    \/ \E r \in Requests, override \in DurationOverrides,
          default \in ConfigDurations, buffer \in ConfigBuffers,
          end_time \in ConfigEnds :
          availability_generate_time_slots_begin(r, override, default,
                                                 buffer, end_time)
    \/ \E r \in Requests : generate_time_slots_iterate(r)
    \/ \E r \in Requests : generate_time_slots_return(r)
    \/ \E busy_periods \in SUBSET BusyIntervals, t \in NowValues :
          filter_slots_call(busy_periods, t)

SpecSlots == InitCodec /\ [][NextSlots]_vars

\* The interpreter runs a loop that can go on.
SpecSlotsFair ==
    SpecSlots /\ WF_vars(\E r \in Requests : generate_time_slots_iterate(r))
              /\ WF_vars(\E r \in Requests : generate_time_slots_return(r))

(***************************************************************************)
(* parse_date (CalendarService.parse_date and calendar/availability.py).   *)
(* A date is its day number; day 0 is a Monday.                            *)
(***************************************************************************)
DaysPerWeek == 7
MaxToday == 20
Todays == 0..MaxToday

days == <<"monday", "tuesday", "wednesday", "thursday", "friday",
          "saturday", "sunday">>

\* date.weekday()
weekday(date) == date % DaysPerWeek

\* days.index(day_name), 0-based; -1 when the name is not in days.
days_index(name) ==
    IF \E i \in 1..Len(days) : days[i] = name
    THEN (CHOOSE i \in 1..Len(days) : days[i] = name) - 1
    ELSE -1

\* days_ahead with the roll-over only for a weekday already past.
days_ahead_same_week(target_day, current_day) ==
    IF target_day - current_day < 0
    THEN target_day - current_day + DaysPerWeek
    ELSE target_day - current_day

\* days_ahead = target_day - current_day; if days_ahead <= 0: += 7
days_ahead(target_day, current_day) ==
    IF target_day - current_day <= 0
    THEN target_day - current_day + DaysPerWeek
    ELSE target_day - current_day

\* What a caller says after lower() and strip(): "today", "tomorrow",
\* "next " + a word.
DateWords == {days[i] : i \in 1..Len(days)} \cup {"week"}
DateStrings ==
    {<<"today">>, <<"tomorrow">>} \cup {<<"next", w>> : w \in DateWords}

\* parse_date on the natural-language forms: <<date>>, or <<>> for the
\* ValueError that ends the search through the formats.
parse_date(date_string, today) ==
    IF date_string = <<"today">> THEN <<today>>
    ELSE IF date_string = <<"tomorrow">> THEN <<today + 1>>
    ELSE IF date_string[1] = "next" /\ days_index(date_string[2]) >= 0
    THEN <<today + days_ahead(days_index(date_string[2]), weekday(today))>>
    ELSE <<>>

parse_date_result(op, date_string, today) ==
    /\ LET parsed == parse_date(date_string, today)
       IN last' = ResultWith(op, "", "none", NoId,
                             parsed # <<>>,
                             IF parsed # <<>> THEN "ok" ELSE "ValueError",
                             "none", "none",
                             [date_string |-> date_string, today |-> today,
                              parsed |-> parsed])
    /\ UNCHANGED <<now, patients, appointments, events, pending, users, token_file, user_sessions>>

CalendarService_parse_date_call(date_string, today) ==
    parse_date_result("CalendarService.parse_date", date_string, today)

availability_parse_date_call(date_string, today) ==
    parse_date_result("parse_date", date_string, today)

NextDates ==
    \/ \E date_string \in DateStrings, today \in Todays :
          CalendarService_parse_date_call(date_string, today)
    \/ \E date_string \in DateStrings, today \in Todays :
          availability_parse_date_call(date_string, today)

SpecDates == InitCodec /\ [][NextDates]_vars

(***************************************************************************)
(* GoogleAuthManager (src/core/auth.py): one credential in a token file.   *)
(* An access token is its text and the time until which the provider      *)
(* honours it; the file keeps the text only, _save_tokens writes no expiry.*)
(***************************************************************************)
access_token(id, valid_until) == [id |-> id, valid_until |-> valid_until]

\* _save_tokens: the keys of token_data that carry the credential.
save_tokens(credentials) ==
    <<[token |-> credentials.token,
       refresh_token |-> credentials.refresh_token]>>

\* Credentials.from_authorized_user_file: a file without an expiry is read
\* as a credential whose expiry has passed.
from_authorized_user_file(file) ==
    [token |-> file[1].token, refresh_token |-> file[1].refresh_token,
     expiry |-> now]

\* credentials.expired
expired(credentials) == now >= credentials.expiry

\* credentials.valid
valid(credentials) == credentials.token.id # "" /\ ~expired(credentials)

\* credentials.refresh(Request()): a new access token and expiry, the
\* refresh token kept.
refreshed(credentials) ==
    [credentials EXCEPT
        !.token = access_token(issue_token(credentials.token.id),
                               now + TokenLifetime),
        !.expiry = now + TokenLifetime]

\* get_credentials with the branch "Refresh if expired" left out.
needs_refresh_never(credentials) == FALSE

\* credentials.expired and credentials.refresh_token
needs_refresh(credentials) ==
    expired(credentials) /\ credentials.refresh_token # ""

\* get_credentials: <<credentials>> or <<>> for None, and the token file it
\* leaves.  refresh_ok: the provider answers the refresh; save_ok: the file
\* can be written.
get_credentials(refresh_ok, save_ok) ==
    IF token_file = <<>> THEN [returned |-> <<>>, file |-> token_file]
    ELSE LET credentials == from_authorized_user_file(token_file)
         IN IF needs_refresh(credentials)
            THEN IF ~refresh_ok
                 THEN [returned |-> <<>>, file |-> token_file]
                 ELSE IF ~save_ok
                 THEN [returned |-> <<>>, file |-> token_file]
                 ELSE [returned |-> <<refreshed(credentials)>>,
                       file |-> save_tokens(refreshed(credentials))]
            ELSE [returned |-> IF valid(credentials) THEN <<credentials>>
                               ELSE <<>>,
                  file |-> token_file]

get_credentials_call(refresh_ok, save_ok) ==
    /\ token_file' = get_credentials(refresh_ok, save_ok).file
    /\ last' = ResultWith("get_credentials", "", "none", NoId,
                          get_credentials(refresh_ok, save_ok).returned # <<>>,
                          "ok",
                          IF token_file # <<>>
                             /\ needs_refresh(from_authorized_user_file(token_file))
                          THEN IF refresh_ok THEN "ok" ELSE "fail"
                          ELSE "none",
                          IF token_file' # token_file THEN "ok" ELSE "none",
                          [token_file |-> token_file,
                           credentials |->
                               get_credentials(refresh_ok, save_ok).returned])
    /\ UNCHANGED <<now, patients, appointments, events, pending, users,
                   user_sessions>>

\* handle_callback: the code exchange and _save_tokens.
handle_callback(exchange_ok, refresh_token) ==
    /\ token_file' =
          IF exchange_ok
          THEN save_tokens(
                   [token |-> access_token(
                                  issue_token(IF token_file = <<>> THEN ""
                                              ELSE token_file[1].token.id),
                                  now + TokenLifetime),
                    refresh_token |-> refresh_token])
          ELSE token_file
    /\ last' = Result("handle_callback", "", "none", NoId, exchange_ok,
                      IF exchange_ok THEN "ok" ELSE "Authentication failed",
                      IF exchange_ok THEN "ok" ELSE "fail",
                      IF exchange_ok THEN "ok" ELSE "none")
    /\ UNCHANGED <<now, patients, appointments, events, pending, users,
                   user_sessions>>

\* disconnect: os.remove(self.token_file)
GoogleAuthManager_disconnect ==
    /\ token_file' = <<>>
    /\ last' = Result("disconnect", "", "none", NoId, TRUE, "ok", "none",
                      IF token_file # <<>> THEN "ok" ELSE "none")
    /\ UNCHANGED <<now, patients, appointments, events, pending, users,
                   user_sessions>>

NextGoogleAuth ==
    \/ Tick
    \/ \E refresh_ok \in BOOLEAN, save_ok \in BOOLEAN :
          get_credentials_call(refresh_ok, save_ok)
    \/ \E exchange_ok \in BOOLEAN, refresh_token \in IssuedRefreshTokens :
          handle_callback(exchange_ok, refresh_token)
    \/ GoogleAuthManager_disconnect

SpecGoogleAuth == InitCodec /\ [][NextGoogleAuth]_vars

(***************************************************************************)
(* book_appointment (src/calendar/service.py): the appointment id and the  *)
(* confirmation number of a booking that went through.  A text is the      *)
(* sequence of its characters.                                             *)
(***************************************************************************)
HexLength == 12
PrefixLength == 3
HexDigits == {"0", "9", "a", "f"}

\* uuid4().hex[:12] of the bookings: ids that differ in the first, the
\* second or the last character.
UuidHexes ==
    {[i \in 1..HexLength |->
         IF i = 1 THEN a ELSE IF i = 2 THEN b
         ELSE IF i = HexLength THEN c ELSE "0"] :
        a \in HexDigits, b \in HexDigits, c \in HexDigits}

\* The date argument, "YYYY-MM-DD".
BookingDates ==
    {<<"2", "0", "2", "6", "-", "0", "2", "-", d1, d2>> :
        d1 \in {"1", "2"}, d2 \in {"0", "9"}}

\* str.upper() on the characters an id holds.
upper(c) ==
    CASE c = "a" -> "A" [] c = "b" -> "B" [] c = "c" -> "C"
      [] c = "d" -> "D" [] c = "e" -> "E" [] c = "f" -> "F"
      [] c = "p" -> "P" [] c = "t" -> "T"
      [] OTHER -> c

\* text.replace(old, ""), old one character
without(text, old) == SelectSeq(text, LAMBDA c : c # old)

\* f"appt_{uuid4().hex[:12]}"
new_appointment_id(hex) == <<"a", "p", "p", "t", "_">> \o hex

\* f"CP-{date.replace('-', '')}-{appointment_id[:3].upper()}"
confirmation_number(date, appointment_id) ==
    <<"C", "P", "-">> \o without(date, "-") \o <<"-">>
        \o [i \in 1..PrefixLength |-> upper(appointment_id[i])]

\* The response of a book_appointment call that went through.
book_appointment_response(date, hex) ==
    /\ last' = ResultWith("book_appointment.response", "", "none", NoId,
                          TRUE, "ok", "ok", "ok",
                          [appointment_id |-> new_appointment_id(hex),
                           date |-> date,
                           confirmation_number |->
                               confirmation_number(date,
                                                   new_appointment_id(hex))])
    /\ UNCHANGED <<now, patients, appointments, events, pending, users,
                   token_file, user_sessions>>

NextConfirmation ==
    \E date \in BookingDates, hex \in UuidHexes :
        book_appointment_response(date, hex)

SpecConfirmation == InitCodec /\ [][NextConfirmation]_vars

(***************************************************************************)
(* Sessions (src/auth/service.py, src/api/main.py): the JWT access token   *)
(* a login hands out, the user_sessions row that records it, logout, and   *)
(* the dependency get_current_user that guards every authenticated route.  *)
(* A JWT is its claims and the key that signed it.                         *)
(***************************************************************************)
MaxSessions == 2
ACCESS_TOKEN_EXPIRE_MINUTES == 30
SECRET_KEY == "dev-secret-key-change-in-production"

\* create_access_token({"user_id": user_id})
create_access_token(user_id) ==
    [user_id |-> user_id, exp |-> now + ACCESS_TOKEN_EXPIRE_MINUTES,
     key |-> SECRET_KEY]

\* verify_token: <<payload>>, or <<>> for None when jwt.decode raises on
\* the signature or on an exp that has passed.
verify_token(token) ==
    IF token.key = SECRET_KEY /\ token.exp >= now
    THEN <<[user_id |-> token.user_id, exp |-> token.exp]>>
    ELSE <<>>

\* get_current_user: <<user_id>>, or <<>> for the 401 it raises.
get_current_user(token) ==
    IF verify_token(token) = <<>> THEN <<>>
    ELSE IF verify_token(token)[1].user_id = "" THEN <<>>
    ELSE <<verify_token(token)[1].user_id>>

\* The bearer tokens a request can carry: the ones handed out, and one
\* signed with another key.
BearerTokens ==
    {user_sessions[i].access_token : i \in 1..Len(user_sessions)}
    \cup {[user_id |-> SingleTenantDoctor,
           exp |-> ClockStart + ACCESS_TOKEN_EXPIRE_MINUTES,
           key |-> "another-key"]}

\* create_session, called by the OAuth callback: the row and its commit.
create_session(user_id, commit_ok) ==
    /\ Len(user_sessions) < MaxSessions
    /\ user_sessions' =
          IF commit_ok
          THEN Append(user_sessions,
                      [user_id |-> user_id,
                       access_token |-> create_access_token(user_id),
                       is_active |-> TRUE,
                       expires_at |-> now + ACCESS_TOKEN_EXPIRE_MINUTES])
          ELSE user_sessions
    /\ last' = ResultWith("create_session", user_id, "none", NoId,
                          commit_ok, IF commit_ok THEN "ok" ELSE "exception",
                          "none", IF commit_ok THEN "ok" ELSE "fail",
                          IF commit_ok THEN <<create_access_token(user_id)>>
                          ELSE <<>>)
    /\ UNCHANGED <<now, patients, appointments, events, pending, users,
                   token_file>>

\* POST /api/auth/logout
logout(token, commit_ok) ==
    /\ LET current_user == get_current_user(token)
       IN IF current_user = <<>>
          THEN /\ last' = ResultWith("logout", "", "none", NoId, FALSE,
                                     "401", "none", "none", <<token>>)
               /\ UNCHANGED user_sessions
          ELSE IF ~commit_ok
          THEN /\ last' = ResultWith("logout", current_user[1], "none", NoId,
                                     FALSE, "500", "none", "fail", <<token>>)
               /\ UNCHANGED user_sessions
          ELSE /\ user_sessions' =
                     [i \in 1..Len(user_sessions) |->
                         IF user_sessions[i].user_id = current_user[1]
                         THEN [user_sessions[i] EXCEPT !.is_active = FALSE]
                         ELSE user_sessions[i]]
               /\ last' = ResultWith("logout", current_user[1], "none", NoId,
                                     TRUE, "ok", "none", "ok", <<token>>)
    /\ UNCHANGED <<now, patients, appointments, events, pending, users,
                   token_file>>

\* A request to a route that depends on get_current_user.
get_current_user_call(token) ==
    /\ last' = ResultWith("get_current_user",
                          IF get_current_user(token) = <<>> THEN ""
                          ELSE get_current_user(token)[1],
                          "none", NoId,
                          get_current_user(token) # <<>>,
                          IF get_current_user(token) # <<>> THEN "ok"
                          ELSE "401",
                          "none", "none", <<token>>)
    /\ UNCHANGED <<now, patients, appointments, events, pending, users,
                   token_file, user_sessions>>

NextSessions ==
    \/ Tick
    \/ \E user_id \in Doctors, commit_ok \in BOOLEAN :
          create_session(user_id, commit_ok)
    \/ \E token \in BearerTokens, commit_ok \in BOOLEAN :
          logout(token, commit_ok)
    \/ \E token \in BearerTokens : get_current_user_call(token)

SpecSessions == InitCodec /\ [][NextSessions]_vars

(***************************************************************************)
(* All the handlers together.  The sub-specifications above are the        *)
(* callers that run apart: the authenticated API over the local store,     *)
(* the agent endpoints, the calendar routes, the appointments module.      *)
(***************************************************************************)
Next ==
    NextStore \/ NextAgent \/ NextCalendar \/ NextAppointments \/ NextAuth
        \/ NextProxy

Spec == Init /\ [][Next]_vars


\* The two cancel operations (calendar/service.py cancel_appointment and
\* CalendarService.cancel_appointment) among the operations that bring an
\* appointment into the states a cancel can meet.
NextCancel ==
    \/ \E d \in Doctors, phone \in Phones, t \in ReqTimes,
          db_ok \in BOOLEAN, refresh_ok \in BOOLEAN, commit_ok \in BOOLEAN :
          book_appointment(d, phone, t, db_ok, refresh_ok, commit_ok)
    \/ \E d \in Doctors, id \in 1..(MaxAppts + 1),
          db_ok \in BOOLEAN, refresh_ok \in BOOLEAN, commit_ok \in BOOLEAN :
          cancel_appointment(d, id, db_ok, refresh_ok, commit_ok)
    \/ \E id \in EventRefs, conn \in BOOLEAN, api_ok \in BOOLEAN :
          CalendarService_cancel_appointment(id, conn, api_ok)
    \/ \E id \in EventRefs, conn \in BOOLEAN, api_ok \in BOOLEAN :
          CalendarService_mark_reminder_sent(id, conn, api_ok)
    \/ \E id \in EventRefs, conn \in BOOLEAN, api_ok \in BOOLEAN :
          CalendarService_mark_no_show(id, conn, api_ok)

SpecCancel == Init /\ [][NextCancel]_vars

\* CalendarService on a connected calendar whose free/busy query answers
\* with the busy list: the operations that take, give up and ask for slots.
NextOccupancy ==
    \/ \E r \in Requests, t \in ReqTimes :
          create_appointment_check(r, "+15550001", t, TRUE, "busy")
    \/ \E r \in Requests, api_ok \in BOOLEAN :
          create_appointment_write(r, api_ok)
    \/ \E id \in EventRefs, t \in ReqTimes, api_ok \in BOOLEAN :
          CalendarService_reschedule_appointment(id, t, TRUE, "busy", api_ok)
    \/ \E id \in EventRefs, api_ok \in BOOLEAN :
          CalendarService_cancel_appointment(id, TRUE, api_ok)
    \/ CalendarService_check_availability(TRUE, "busy")
    \/ Tick

SpecOccupancy == Init /\ [][NextOccupancy]_vars
(***************************************************************************)
(* Claims.                                                                 *)
(***************************************************************************)
\* The transitions of the appointment state machine.
AllowedTransitions ==
    { <<"scheduled", "confirmed">>, <<"scheduled", "cancelled">>,
      <<"scheduled", "no_show">>, <<"scheduled", "completed">>,
      <<"confirmed", "cancelled">>, <<"confirmed", "no_show">>,
      <<"confirmed", "completed">> }

\* C1: every change of a row's local status follows the state machine, so
\* a row that is cancelled, no_show or completed keeps that status.
C1_StatusFollowsStateMachine ==
    [][\A i \in ApptIds :
          \/ appointments'[i].status = appointments[i].status
          \/ <<appointments[i].status, appointments'[i].status>>
                \in AllowedTransitions]_vars

\* The handlers that take an appointment id in a doctor's scope.
ScopedOps ==
    {"cancel_appointment", "update_appointment", "delete_appointment",
     "confirm_appointment", "mark_appointment_no_show",
     "mark_calendar_appointment_no_show"}

\* The rows a result's argument names that another doctor owns.
ForeignRows(l) ==
    {i \in ApptIds :
        /\ appointments[i].doctor_id # l.scope
        /\ \/ l.argk = "appt" /\ l.arg = i
           \/ l.argk = "event" /\ l.arg = appointments[i].calendar_event_id}

\* The failures a handler reports before it looks the appointment up.
EarlyFailures == {"not_connected", "no_show_failed", "exception"}

\* C2 as stated: a handler run in doctor A's scope with the id of doctor
\* B's appointment reports not-found and leaves B's row and B's events as
\* they were.
C2_ForeignIdIsNotFound ==
    [][(last'.op \in ScopedOps /\ ForeignRows(last') # {}) =>
          /\ ~last'.ok
          /\ last'.code = "not_found"
          /\ appointments' = appointments
          /\ events' = events]_vars

\* C2 amended: such a call never succeeds and leaves B's row and B's
\* events as they were; it reports not-found unless the caller's calendar
\* credentials or the store failed before the lookup, which is then the
\* error reported.
C2_ForeignIdNeverSucceeds ==
    [][(last'.op \in ScopedOps /\ ForeignRows(last') # {}) =>
          /\ ~last'.ok
          /\ last'.code \in {"not_found"} \cup EarlyFailures
          /\ appointments' = appointments
          /\ events' = events]_vars

\* A cancel in another doctor's scope has just been refused as not found.
C2_Witness ==
    /\ last.op \in ScopedOps
    /\ last.code = "not_found"
    /\ ForeignRows(last) # {}

\* The time a booking asked for.
requested_time(l) ==
    IF l.argk = "time" THEN l.arg ELSE appointments'[l.arg].time

\* C3: a booking whose start time is not an available slot (busy, not
\* after now, outside the working hours) fails and creates no event, no
\* patient and no appointment.
C3_BookingRevalidatesSlot ==
    [][(last'.op = "book_appointment"
          /\ ~is_slot_available(last'.scope, requested_time(last'), "busy")) =>
          /\ ~last'.ok
          /\ UNCHANGED <<patients, appointments, events>>]_vars

\* The events of a calendar that overlap the slot starting at t.
overlapping(cal, t) ==
    {i \in EventIds :
        /\ events[i].cal = cal
        /\ ~(t + duration_minutes <= events[i].start_time
             \/ t >= events[i].end_time)}

\* C4: nothing spans the check and the write: while a request that passed
\* the check for a slot has not written, and no event has taken the slot,
\* the check passes for that slot again.
C4_NoLockSpansCheckAndWrite ==
    \A r \in Requests :
        (pending[r] # NoRequest
            /\ overlapping(SingleTenantDoctor, pending[r].time) = {}) =>
        is_slot_available(SingleTenantDoctor, pending[r].time, "busy")

CreateOps == {"create_appointment", "agent_schedule_appointment"}

\* Two requests for one free slot have both returned success: the calendar
\* holds two appointments that start at the same time.
C4_Witness ==
    /\ last.op \in CreateOps
    /\ last.ok
    /\ \E i \in EventIds :
          /\ i # last.arg
          /\ events[i].cal = events[last.arg].cal
          /\ events[i].start_time = events[last.arg].start_time
          /\ events[i].summary[1] = "Appointment:"

\* The row a result's argument names in its doctor's scope.
row_of(l) == find_appointment_by_id_or_calendar_id(l.scope, l.argk, l.arg)

\* C5: after a successful cancel the local status is cancelled and the
\* linked event still exists, titled "CANCELLED:" with Status cancelled.
C5_CancelRelabelsEvent ==
    (last.op \in {"cancel_appointment", "delete_appointment"} /\ last.ok) =>
        LET a == row_of(last)
            ev == appointments[a].calendar_event_id
        IN /\ appointments[a].status = "cancelled"
           /\ ev # NoId =>
                 /\ ev \in EventIds
                 /\ events[ev].summary[1] = "CANCELLED:"
                 /\ decoded_status(events[ev].description) = "cancelled"

\* The rows linked to a calendar event.
rows_of_event(ev) ==
    {i \in ApptIds : appointments[i].calendar_event_id = ev}

RescheduleOps ==
    {"reschedule_appointment", "agent_reschedule_appointment",
     "appointments.reschedule_appointment"}

\* C6: after a successful reschedule reminder_sent is false in the decoded
\* event and in the local row, whatever the event held before.
C6_RescheduleResetsReminder ==
    (last.op \in RescheduleOps /\ last.ok) =>
        /\ ~decoded_reminder_sent(events[last.arg].description)
        /\ \A i \in rows_of_event(last.arg) : ~appointments[i].reminder_sent

\* The event carries the no-show label.
NoShowRelabelled(event) ==
    /\ event.summary # <<>>
    /\ event.summary[1] = "NO SHOW:"
    /\ decoded_status(event.description) = "no_show"

\* In a step of mark_appointment_no_show on a row of the caller: the
\* handler wrote the row's status; the handler relabelled the row's event.
LocalSetNoShow(a) ==
    last'.commit = "ok" /\ appointments'[a].status = "no_show"

ExternalRelabelled(a) ==
    /\ last'.ext = "ok"
    /\ appointments[a].calendar_event_id \in EventIds
    /\ NoShowRelabelled(events'[appointments[a].calendar_event_id])

\* C7 as stated: mark-no-show sets the local status to no_show exactly
\* when the event was relabelled; when the external update fails it
\* reports failure and leaves the local status alone.
C7_NoShowIffRelabelled ==
    [][(last'.op = "mark_appointment_no_show" /\ row_of(last') # NoId) =>
          /\ LocalSetNoShow(row_of(last')) <=> ExternalRelabelled(row_of(last'))
          /\ last'.ext = "fail" =>
                (~last'.ok /\ appointments' = appointments)]_vars

\* C7 amended: mark-no-show sets the local status to no_show only when
\* the event was relabelled, and whenever it reports success both were
\* done; when the external update fails it reports failure and leaves the
\* local status alone.  (A commit that fails after the relabelling leaves
\* the event labelled and the row as it was, reported as a failure.)
C7_NoShowOnlyIfRelabelled ==
    [][(last'.op = "mark_appointment_no_show" /\ row_of(last') # NoId) =>
          /\ LocalSetNoShow(row_of(last')) => ExternalRelabelled(row_of(last'))
          /\ last'.ok => (LocalSetNoShow(row_of(last'))
                            /\ ExternalRelabelled(row_of(last')))
          /\ last'.ext = "fail" =>
                (~last'.ok /\ appointments' = appointments)
          /\ (last'.ext = "ok" /\ last'.commit = "fail") =>
                (~last'.ok /\ appointments' = appointments)]_vars

\* mark-no-show has succeeded on a row with a linked event: the row is
\* no_show and the event is relabelled.
C7_Witness ==
    /\ last.op = "mark_appointment_no_show"
    /\ last.ok
    /\ row_of(last) # NoId
    /\ appointments[row_of(last)].status = "no_show"
    /\ NoShowRelabelled(events[appointments[row_of(last)].calendar_event_id])

ReminderOps == {"mark_reminder_sent", "appointments.mark_reminder_sent"}

\* C8: after a successful mark-reminder-sent reminder_sent is true in the
\* decoded event and in the local row linked to it.
C8_ReminderSentInBothStores ==
    (last.op \in ReminderOps /\ last.ok) =>
        /\ decoded_reminder_sent(events[last.arg].description)
        /\ \A i \in rows_of_event(last.arg) : appointments[i].reminder_sent

\* C9: after a successful booking the row's calendar_event_id is set and
\* names an event of the doctor's calendar.
C9_BookingLinksEvent ==
    (last.op = "book_appointment" /\ last.ok) =>
        /\ appointments[last.arg].calendar_event_id # NoId
        /\ get_event(last.scope, appointments[last.arg].calendar_event_id)

\* A failure in which neither store changed; a failure after the external
\* write succeeded and the local commit failed.
OrdinaryFailure(l) == ~l.ok /\ l.ext # "ok" /\ l.commit # "ok"
Diverged(l) == l.ext = "ok" /\ l.commit = "fail"

\* C10: what a handler returns when its external write succeeded and its
\* commit failed is not a success and differs from what it returns for a
\* failure in which neither store changed.
C10_DivergenceIsDistinct ==
    [][Diverged(last') =>
          /\ ~last'.ok
          /\ OrdinaryFailure(last) =>
                ~(last.op = last'.op /\ last.code = last'.code)]_vars

(***************************************************************************)
(* Credentials.                                                            *)
(***************************************************************************)
\* C11: whenever the stored access-token expiry has passed,
\* get_user_oauth_token returns either no credential or a freshly
\* refreshed one: a new access token and a new expiry, both persisted, and
\* the refresh token that was stored before.  It never returns the expired
\* credential.
C11_ExpiredTokenIsRefreshedOrWithheld ==
    [][\A u \in Doctors, refresh_ok \in BOOLEAN :
          (get_user_oauth_token_call(u, refresh_ok) /\ token_expired(u))
          => \/ last'.value = <<>>
             \/ /\ last'.value[1].access_token # stored_access_token(u)
                /\ last'.value[1].refresh_token = users[u].google_refresh_token
                /\ last'.value[1].expiry > now
                /\ users'[u].google_oauth_token = last'.value
                /\ users'[u].google_token_expiry = last'.value[1].expiry]_vars

\* A lookup found the token expired, refreshed it and returned the new one.
C11_Witness ==
    /\ last.op = "get_user_oauth_token"
    /\ last.ext = "ok"
    /\ last.value # <<>>
    /\ users[last.scope].google_oauth_token = last.value

\* The values a doctor's stored credential holds that must stay behind the
\* proxy: access token, refresh token, client secret.
StoredSecrets(u) ==
    {users[u].google_refresh_token} \cup
    (IF users[u].google_oauth_token = <<>> THEN {}
     ELSE {users[u].google_oauth_token[1].access_token,
           users[u].google_oauth_token[1].refresh_token,
           users[u].google_oauth_token[1].client_secret})

ProxyOps ==
    {"check_availability", "book_appointment", "cancel_appointment",
     "get_upcoming_appointments"}

\* The texts a proxy answer carries.
ResultTexts(l) ==
    {l.code} \cup
    (IF l.op = "check_availability"
     THEN IF l.value[1].success THEN {l.value[1].date}
          ELSE {l.value[1].error}
     ELSE IF l.op = "get_upcoming_appointments"
     THEN {l.value[k].patient_phone : k \in 1..Len(l.value)}
          \cup {l.value[k].status : k \in 1..Len(l.value)}
     ELSE {})

\* Token data as valid as the stored one, with other secret values.
OtherCredentials(oauth_token) ==
    {<<[oauth_token[1] EXCEPT !.access_token = at, !.refresh_token = rt,
                               !.client_secret = cs]>> :
        at \in AccessTokens, rt \in {"rt1", "rt2", "rt3"},
        cs \in {ClientSecret, "client_secret_2"}}

\* C12: no answer of check_availability, book_appointment,
\* cancel_appointment or get_upcoming_appointments, success or failure,
\* contains the doctor's access token, refresh token or client secret; a
\* run on a valid stored credential with other secret values returns the
\* identical answer.
C12_NoCredentialCrossesProxy ==
    [][/\ last'.op \in ProxyOps
          => \A u \in Doctors :
                /\ ResultTexts(last') \cap (StoredSecrets(u) \ {""}) = {}
                /\ ResultTexts(last') \cap (StoredSecrets(u)' \ {""}) = {}
       /\ \A d \in Doctors, date \in Dates, refresh_ok \in BOOLEAN :
             LET oauth_token == get_user_oauth_token(d, refresh_ok)
             IN (check_availability_call(d, date, refresh_ok)
                 /\ has_access_token(oauth_token))
                => \A other \in OtherCredentials(oauth_token) :
                      last'.value = <<proxy_check_availability(other, date)>>]_vars

\* A valid credential was used and the slots came back.
C12_Witness ==
    /\ last.op = "check_availability"
    /\ last.ok
    /\ last.value[1].available_slots # <<>>
    /\ users[last.scope].google_oauth_token # <<>>

(***************************************************************************)
(* Failures of the calendar.                                               *)
(***************************************************************************)
LifecycleOps ==
    {"create_appointment", "reschedule_appointment", "cancel_appointment",
     "mark_no_show", "mark_reminder_sent"}

\* C13: every operation of the lifecycle manager (create, reschedule,
\* cancel, mark-no-show, mark-reminder-sent) ends in a result it returns,
\* whatever the input and whatever the calendar does, a disconnected
\* calendar and a failing free/busy query included: no exception leaves
\* the operation.
C13_NoExceptionEscapes ==
    last.op \in LifecycleOps => last.code \notin RaisedByCalendarService

\* C14: whenever the free/busy query for the day fails, by raising or by
\* answering with an error entry for the calendar, the availability check
\* reports a failure; it returns no slots computed as if nothing were busy.
C14_FailedQueryIsReported ==
    (last.op = "CalendarService.check_availability" /\ last.ext = "fail")
        => ~last.ok


\* C15: cancel is idempotent. A cancel that follows a successful cancel of
\* the same appointment leaves the local rows and the calendar events as
\* the first cancel left them, the status stays cancelled, and when the
\* store and the calendar answer it returns the same result again.
C15_CancelIsIdempotent ==
    [][ /\ \A d \in Doctors, id \in ApptIds, db_ok \in BOOLEAN,
              refresh_ok \in BOOLEAN, commit_ok \in BOOLEAN :
              ( /\ cancel_appointment(d, id, db_ok, refresh_ok, commit_ok)
                /\ last.op = "cancel_appointment" /\ last.argk = "appt"
                /\ last.ok /\ last.scope = d /\ last.arg = id )
              => /\ appointments' = appointments
                 /\ events' = events
                 /\ appointments'[id].status = "cancelled"
                 /\ last'.ok => last' = last
                 /\ (db_ok /\ refresh_ok /\ commit_ok) => last'.ok
        /\ \A id \in EventIds, conn \in BOOLEAN, api_ok \in BOOLEAN :
              ( /\ CalendarService_cancel_appointment(id, conn, api_ok)
                /\ last.op = "cancel_appointment" /\ last.argk = "event"
                /\ last.ok /\ last.arg = id )
              => /\ events' = events
                 /\ appointments' = appointments
                 /\ decoded_status(events'[id].description) = "cancelled"
                 /\ last'.ok => last' = last
                 /\ (conn /\ api_ok) => last'.ok
      ]_vars

C15_Witness ==
    /\ last.op = "cancel_appointment" /\ last.argk = "event"
    /\ last.ok
    /\ events[last.arg] = cancelled_event(events[last.arg])
    /\ events[last.arg].summary[1] = "CANCELLED:"
    /\ decoded_status(events[last.arg].description) = "cancelled"
    /\ \E id \in ApptIds : appointments[id].status = "cancelled"

\* C17: a book_appointment call that fails returns success=false and
\* leaves the local store as it was: no Patient row and no Appointment row
\* has been added.
C17_FailedBookingLeavesStoreUnchanged ==
    [][ \A d \in Doctors, phone \in Phones, t \in ReqTimes,
           db_ok \in BOOLEAN, refresh_ok \in BOOLEAN, commit_ok \in BOOLEAN :
           ( /\ book_appointment(d, phone, t, db_ok, refresh_ok, commit_ok)
             /\ ~last'.ok )
           => /\ patients' = patients
              /\ appointments' = appointments
      ]_vars

\* C16: after any sequence of book_appointment calls, one after another or
\* overlapping, the Patient table holds at most one row per
\* (doctor_id, phone).
C16_OnePatientPerDoctorAndPhone ==
    \A i, j \in 1..Len(patients) :
        ( /\ patients[i].doctor_id = patients[j].doctor_id
          /\ patients[i].phone = patients[j].phone )
        => i = j

DecodeOps == {"_event_to_appointment", "from_calendar_event"}

\* C18: decode(encode(x)) = x for every appointment x: every combination
\* of name, phone, optional email, optional notes, type, status and
\* reminder flag, the optional fields empty included.
C18_DecodeInvertsEncode ==
    ( /\ last.op \in DecodeOps
      /\ last.value.encoded_from # <<>> )
    => /\ last.ok
       /\ last.value.decoded = last.value.encoded_from

Unrecognised(description, key, values) ==
    \/ ~has_key(description, key)
    \/ parse_description(description, key, "") \notin values

\* C19: decoding never fails: for every description text decode yields an
\* appointment, and a field that is missing or carries a value outside its
\* enumeration takes its default (status scheduled, type checkup,
\* reminder_sent false).
C19_DecodeNeverFails ==
    last.op \in DecodeOps
    => /\ last.ok
       /\ last.value.decoded # <<>>
       /\ LET description == last.value.description
              decoded == last.value.decoded[1]
          IN /\ Unrecognised(description, "status", AppointmentStatus)
                => decoded.status = "scheduled"
             /\ Unrecognised(description, "type", AppointmentType)
                => decoded.appointment_type = "checkup"
             /\ ~has_key(description, "reminder_sent")
                => ~decoded.reminder_sent

UpdateOps ==
    {"_update_description_field", "update_description_field",
     "appointments.cancel_appointment"}

\* C20: updating one field (Status or Reminder Sent) changes exactly one
\* line, the field's line when there is one and otherwise one appended
\* line, and keeps every other line and the order; decode then yields the
\* new value for that field and the old values for all others.
C20_UpdateChangesOneLine ==
    last.op \in UpdateOps
    => LET before == last.value.description
           after == last.value.updated
           field == last.value.field
           value == last.value.value
           old == event_to_appointment(before)
           new == event_to_appointment(after)
       IN /\ \/ \E i \in 1..Len(before) :
                   /\ before[i][1] = field
                   /\ after = [before EXCEPT ![i] = <<field, value>>]
             \/ /\ \A i \in 1..Len(before) : before[i][1] # field
                /\ after = Append(before, <<field, value>>)
          /\ IF field = "Status"
             THEN new = [old EXCEPT !.status = value]
             ELSE new = [old EXCEPT !.reminder_sent = (value = "true")]
(***************************************************************************)
(* Titles, slots and dates.                                                *)
(***************************************************************************)
TitleOps ==
    {"cancel_appointment.summary", "mark_no_show.summary",
     "build_no_show_summary"}

\* C21: cancel and no-show rewrite the title by matching the
\* "Appointment:" prefix without regard to case and replacing that first
\* occurrence only with "CANCELLED:" or "NO SHOW:"; the rest of the title,
\* the patient label, stays as it was.
C21_TitlePrefixRewritten ==
    ( /\ last.op \in TitleOps
      /\ Len(last.value.summary) > 1
      /\ Lower(last.value.summary[1]) = "appointment:" )
    => last.value.updated = <<last.value.prefix>> \o Tail(last.value.summary)

\* C22: for every configuration with duration >= 1 and buffer >= 0, slot
\* generation returns slots sorted ascending, each exactly duration
\* minutes long, consecutive starts at least duration + buffer apart, the
\* first slot at the configured start time and every slot ending at or
\* before the configured end time.
C22_GeneratedSlotsWellFormed ==
    ( /\ last.op \in GeneratorOps
      /\ last.code = "ok"
      /\ last.value.duration >= 1
      /\ last.value.buffer >= 0 )
    => LET slots == last.value.slots
           duration == last.value.duration
           buffer == last.value.buffer
       IN /\ \A i \in 1..Len(slots) :
                /\ slots[i].end - slots[i].start = duration
                /\ slots[i].end <= last.value.end_time
          /\ \A i \in 1..(Len(slots) - 1) :
                /\ slots[i].start < slots[i + 1].start
                /\ slots[i + 1].start - slots[i].start >= duration + buffer
          /\ slots # <<>> => slots[1].start = last.value.start_time
          /\ last.value.start_time + duration <= last.value.end_time
             => slots # <<>>

C22_Witness ==
    /\ last.op \in GeneratorOps
    /\ last.code = "ok"
    /\ last.value.duration >= 1
    /\ last.value.buffer > 0
    /\ Len(last.value.slots) >= 3
    /\ last.value.slots[2].start =
          last.value.slots[1].start + last.value.duration + last.value.buffer
    /\ last.value.slots[Len(last.value.slots)].end <= last.value.end_time
    /\ last.value.slots[Len(last.value.slots)].end + last.value.buffer
          + last.value.duration > last.value.end_time

\* The i-th smallest member of a set of positions.
Nth(positions, i) ==
    CHOOSE k \in positions : Cardinality({j \in positions : j <= k}) = i

Overlaps(a, b) == ~(a.end <= b.start \/ a.start >= b.end)

Kept(slot, busy_periods, t) ==
    /\ \A busy \in busy_periods : ~Overlaps(slot, busy)
    /\ slot.start > t

\* C23: the slot filter returns exactly the candidate slots, in their
\* original order, that overlap no busy interval under the half-open test
\* and whose start is strictly after now; for [9:00,9:30), [9:30,10:00),
\* [10:00,10:30) and the busy interval [9:15,9:45) it returns only
\* [10:00,10:30).
C23_FilterKeepsExactlyFreeFutureSlots ==
    last.op = "filter_slots"
    => LET slots == last.value.slots
           available == last.value.available
           busy_periods == last.value.busy_periods
           t == last.value.now
           kept == {i \in 1..Len(slots) : Kept(slots[i], busy_periods, t)}
       IN /\ Len(available) = Cardinality(kept)
          /\ \A i \in 1..Len(available) :
                available[i] = slots[Nth(kept, i)]
          /\ ( /\ slots = <<[start |-> 540, end |-> 570],
                            [start |-> 570, end |-> 600],
                            [start |-> 600, end |-> 630]>>
               /\ busy_periods = {[start |-> 555, end |-> 585]}
               /\ t < 540 )
             => available = <<[start |-> 600, end |-> 630]>>

\* The example of the claim: three slots, busy from 9:15 to 9:45.
C23_Witness ==
    /\ last.op = "filter_slots"
    /\ last.value.slots = <<[start |-> 540, end |-> 570],
                            [start |-> 570, end |-> 600],
                            [start |-> 600, end |-> 630]>>
    /\ last.value.busy_periods = {[start |-> 555, end |-> 585]}
    /\ last.value.now < 540
    /\ last.value.available = <<[start |-> 600, end |-> 630]>>

ParseDateOps == {"CalendarService.parse_date", "parse_date"}

\* C24: for every current date and every weekday name W,
\* parse_date("next W") returns a date that falls on weekday W and lies
\* between 1 and 7 days after today: 7 days ahead when today is W, never
\* today.
C24_NextWeekdayIsFuture ==
    ( /\ last.op \in ParseDateOps
      /\ Len(last.value.date_string) = 2
      /\ last.value.date_string[1] = "next"
      /\ days_index(last.value.date_string[2]) >= 0 )
    => /\ last.ok
       /\ LET today == last.value.today
              date == last.value.parsed[1]
              W == days_index(last.value.date_string[2])
          IN /\ weekday(date) = W
             /\ date - today \in 1..DaysPerWeek
             /\ weekday(today) = W => date = today + DaysPerWeek

\* "next tuesday" asked on a Tuesday.
C24_Witness ==
    /\ last.op \in ParseDateOps
    /\ last.value.date_string = <<"next", "tuesday">>
    /\ weekday(last.value.today) = 1
    /\ last.value.parsed = <<last.value.today + DaysPerWeek>>

\* C25: once the access token of the saved credential has expired, the
\* next get_credentials call attempts a silent refresh with the saved
\* refresh token and, when the refresh and the write go through, persists
\* and returns the refreshed credential; it never returns an expired
\* access token.
C25_ExpiredFileTokenIsRefreshed ==
    [][\A refresh_ok \in BOOLEAN, save_ok \in BOOLEAN :
          ( /\ get_credentials_call(refresh_ok, save_ok)
            /\ token_file # <<>>
            /\ now >= token_file[1].token.valid_until )
          => LET returned == last'.value.credentials
             IN /\ returned # <<>> => returned[1].token.valid_until > now
                /\ token_file[1].refresh_token # ""
                   => /\ last'.ext \in {"ok", "fail"}
                      /\ last'.ext = "ok" <=> refresh_ok
                /\ (token_file[1].refresh_token # "" /\ refresh_ok /\ save_ok)
                   => /\ returned # <<>>
                      /\ returned[1].token # token_file[1].token
                      /\ returned[1].refresh_token = token_file[1].refresh_token
                      /\ token_file' = save_tokens(returned[1])]_vars

\* A call found the saved access token expired and returned a refreshed
\* credential that is now in the file.
C25_Witness ==
    /\ last.op = "get_credentials"
    /\ last.value.token_file # <<>>
    /\ now >= last.value.token_file[1].token.valid_until
    /\ last.value.credentials # <<>>
    /\ last.value.credentials[1].token.valid_until > now
    /\ token_file = save_tokens(last.value.credentials[1])
    /\ token_file # last.value.token_file

TitleAgreesWithStatus(event) ==
    /\ event.summary[1] = "CANCELLED:"
       <=> decoded_status(event.description) = "cancelled"
    /\ event.summary[1] = "NO SHOW:"
       <=> decoded_status(event.description) = "no_show"

\* C26: after any sequence of cancel and mark_no_show operations on an
\* external event, its title prefix and its decoded Status agree: the
\* title starts with "CANCELLED:" exactly when Status is cancelled and
\* with "NO SHOW:" exactly when Status is no_show.
C26_TitleAgreesWithStatus ==
    ( /\ last.op \in {"cancel_appointment", "mark_no_show"}
      /\ last.argk = "event"
      /\ last.ok )
    => TitleAgreesWithStatus(events[last.arg])

CancelledEvents ==
    {e \in EventIds : /\ events[e].cal = SingleTenantDoctor
                      /\ decoded_status(events[e].description) = "cancelled"}

CancelledStarts == {events[e].start_time : e \in CancelledEvents}

C28_ConfirmationNumbersDiffer ==
    [][ ( /\ last.op = "book_appointment.response"
          /\ last'.op = "book_appointment.response"
          /\ last.value.appointment_id # last'.value.appointment_id )
        => last.value.confirmation_number # last'.value.confirmation_number
      ]_vars

\* The access tokens of the user's sessions that a logout has closed:
\* tokens issued to the user before that logout.
LoggedOutTokens ==
    {user_sessions[i].access_token :
        i \in {j \in 1..Len(user_sessions) : ~user_sessions[j].is_active}}

\* C30: after a logout succeeded for a user, every later request that
\* carries an access token issued to that user before the logout is
\* rejected by get_current_user.
C30_LoggedOutTokenIsRejected ==
    [][ \A token \in LoggedOutTokens :
           get_current_user_call(token) => ~last'.ok ]_vars
=============================================================================
